---- MODULE Spec2Model ----
(***************************************************************************)
(* A model of glitter (Kingsford-Group/glitter): the include-aware        *)
(* scanner (GlitterScanner), the tangle read pass (tangleReadBlocks), the  *)
(* tangle expander (expandLine, expandAndWriteBlock, Tangle), the options  *)
(* with their templates (GlitterOptions) and the weaver (Weave).           *)
(*                                                                         *)
(* Strings are sequences of code points.  A code point is a one-element    *)
(* TLA+ string ("a", "<", " "), or a tag for a code point outside ASCII    *)
(* ("U+A0", the no-break space; "U+E9"/"U+C9", e/E with acute accent).     *)
(* ByteLen gives the UTF-8 width, which the code mixes with code point     *)
(* counts (len, a range index, utf8.RuneCountInString).                    *)
(***************************************************************************)
EXTENDS Integers, Sequences, FiniteSets, TLC

(***************************************************************************)
(* Code points                                                             *)
(***************************************************************************)

\* The code points that take two bytes in UTF-8.
TwoByteChars == {"U+A0", "U+E9", "U+C9"}

\* len() of a one-rune string.
ByteLen(c) == IF c \in TwoByteChars THEN 2 ELSE 1

\* \s of Go's regexp (RE2): the ASCII white space only.
IsReSpace(c) == c \in {" ", "\t", "\n", "\f", "\r"}

\* unicode.IsSpace, which strings.TrimSpace uses: also U+00A0.
IsSpace(c) == IsReSpace(c) \/ c = "U+A0"

\* \d of Go's regexp.
IsDigit(c) == c \in {"0", "1", "2", "3", "4", "5", "6", "7", "8", "9"}

DigitVal(c) ==
  CASE c = "0" -> 0 [] c = "1" -> 1 [] c = "2" -> 2 [] c = "3" -> 3
    [] c = "4" -> 4 [] c = "5" -> 5 [] c = "6" -> 6 [] c = "7" -> 7
    [] c = "8" -> 8 [] c = "9" -> 9

DigitChar(d) ==
  CASE d = 0 -> "0" [] d = 1 -> "1" [] d = 2 -> "2" [] d = 3 -> "3"
    [] d = 4 -> "4" [] d = 5 -> "5" [] d = 6 -> "6" [] d = 7 -> "7"
    [] d = 8 -> "8" [] d = 9 -> "9"

\* unicode.ToLower on one rune (the letters the model's inputs use).
LowerChar(c) ==
  CASE c = "A" -> "a" [] c = "B" -> "b" [] c = "C" -> "c" [] c = "D" -> "d"
    [] c = "E" -> "e" [] c = "F" -> "f" [] c = "G" -> "g" [] c = "H" -> "h"
    [] c = "I" -> "i" [] c = "J" -> "j" [] c = "K" -> "k" [] c = "L" -> "l"
    [] c = "M" -> "m" [] c = "N" -> "n" [] c = "O" -> "o" [] c = "P" -> "p"
    [] c = "Q" -> "q" [] c = "R" -> "r" [] c = "S" -> "s" [] c = "T" -> "t"
    [] c = "U" -> "u" [] c = "V" -> "v" [] c = "W" -> "w" [] c = "X" -> "x"
    [] c = "Y" -> "y" [] c = "Z" -> "z" [] c = "U+C9" -> "U+E9"
    [] OTHER -> c

(***************************************************************************)
(* The Go string library, on sequences of code points                      *)
(***************************************************************************)

Min(a, b) == IF a < b THEN a ELSE b

\* s[i:] and s[:i] with Go's 0-based byte/rune offsets turned into counts.
Drop(s, n) == SubSeq(s, n + 1, Len(s))
Take(s, n) == SubSeq(s, 1, n)

\* len(s): the number of bytes.
RECURSIVE Bytes(_)
Bytes(s) == IF s = <<>> THEN 0 ELSE ByteLen(Head(s)) + Bytes(Tail(s))

\* The number of leading code points of s that satisfy the test.
RECURSIVE LeadingSpaces(_)
LeadingSpaces(s) ==
  IF s # <<>> /\ IsSpace(Head(s)) THEN 1 + LeadingSpaces(Tail(s)) ELSE 0

RECURSIVE LeadingReSpaces(_)
LeadingReSpaces(s) ==
  IF s # <<>> /\ IsReSpace(Head(s)) THEN 1 + LeadingReSpaces(Tail(s)) ELSE 0

RECURSIVE TrailingSpaces(_)
TrailingSpaces(s) ==
  IF s # <<>> /\ IsSpace(s[Len(s)])
  THEN 1 + TrailingSpaces(Take(s, Len(s) - 1)) ELSE 0

RECURSIVE TrailingReSpaces(_)
TrailingReSpaces(s) ==
  IF s # <<>> /\ IsReSpace(s[Len(s)])
  THEN 1 + TrailingReSpaces(Take(s, Len(s) - 1)) ELSE 0

\* strings.TrimSpace
TrimSpace(s) ==
  LET a == LeadingSpaces(s)
  IN  IF a = Len(s) THEN <<>>
      ELSE SubSeq(s, a + 1, Len(s) - TrailingSpaces(s))

\* strings.HasPrefix, strings.HasSuffix
HasPrefix(s, p) == Len(s) >= Len(p) /\ Take(s, Len(p)) = p
HasSuffix(s, p) == Len(s) >= Len(p) /\ Drop(s, Len(s) - Len(p)) = p

\* strings.CutPrefix, strings.CutSuffix (the string result only)
CutPrefix(s, p) == IF HasPrefix(s, p) THEN Drop(s, Len(p)) ELSE s
CutSuffix(s, p) == IF HasSuffix(s, p) THEN Take(s, Len(s) - Len(p)) ELSE s

\* strings.ToLower
RECURSIVE ToLower(_)
ToLower(s) ==
  IF s = <<>> THEN <<>> ELSE <<LowerChar(Head(s))>> \o ToLower(Tail(s))

\* strings.Repeat(" ", n)
RECURSIVE Spaces(_)
Spaces(n) == IF n <= 0 THEN <<>> ELSE <<" ">> \o Spaces(n - 1)

\* strconv.Itoa for n >= 0
RECURSIVE Itoa(_)
Itoa(n) ==
  IF n < 10 THEN <<DigitChar(n)>> ELSE Itoa(n \div 10) \o <<DigitChar(n % 10)>>

\* strconv.Atoi on a string of digits: [ok, val].  The empty string is an
\* error.  (Overflow of int is not modelled: the inputs' numbers are small.)
RECURSIVE AtoiVal(_)
AtoiVal(s) ==
  IF s = <<>> THEN 0 ELSE 10 * AtoiVal(Take(s, Len(s) - 1)) + DigitVal(s[Len(s)])

Atoi(s) ==
  IF s # <<>> /\ \A i \in 1..Len(s) : IsDigit(s[i])
  THEN [ok |-> TRUE, val |-> AtoiVal(s)]
  ELSE [ok |-> FALSE, val |-> 0]

\* cmp.Compare on strings: the byte-wise lexicographic order.  The model's
\* file names are ASCII, ordered by this rank of their code points.
CharRank(c) ==
  CASE c = " " -> 32 [] c = "\"" -> 34 [] c = "#" -> 35 [] c = "*" -> 42
    [] c = "." -> 46 [] c = "/" -> 47
    [] IsDigit(c) -> 48 + DigitVal(c)
    [] c = ":" -> 58 [] c = "<" -> 60 [] c = "=" -> 61 [] c = ">" -> 62
    [] c = "@" -> 64
    [] c = "a" -> 97 [] c = "b" -> 98 [] c = "c" -> 99 [] c = "d" -> 100
    [] c = "e" -> 101 [] c = "f" -> 102 [] c = "g" -> 103 [] c = "h" -> 104
    [] c = "i" -> 105 [] c = "l" -> 108 [] c = "m" -> 109 [] c = "n" -> 110
    [] c = "o" -> 111 [] c = "p" -> 112 [] c = "r" -> 114 [] c = "t" -> 116
    [] c = "u" -> 117 [] c = "w" -> 119 [] c = "x" -> 120 [] c = "y" -> 121
    [] c = "z" -> 122
    [] OTHER -> 200

RECURSIVE CompareStr(_, _)
CompareStr(a, b) ==
  IF a = <<>> /\ b = <<>> THEN 0
  ELSE IF a = <<>> THEN -1
  ELSE IF b = <<>> THEN 1
  ELSE IF CharRank(Head(a)) < CharRank(Head(b)) THEN -1
  ELSE IF CharRank(Head(a)) > CharRank(Head(b)) THEN 1
  ELSE CompareStr(Tail(a), Tail(b))

CompareInt(a, b) == IF a < b THEN -1 ELSE IF a > b THEN 1 ELSE 0

(***************************************************************************)
(* Names: canonicalCodeName and the top-level name grammar                 *)
(***************************************************************************)

\* The length of the run of c that starts s.
RECURSIVE RunLen(_, _)
RunLen(s, c) == IF s # <<>> /\ Head(s) = c THEN 1 + RunLen(Tail(s), c) ELSE 0

\* A replaceNoOpChars that takes away the whole run.
RECURSIVE replaceNoOpCharsDroppingRuns(_)
replaceNoOpCharsDroppingRuns(line) ==
  IF line = <<>> THEN <<>>
  ELSE IF Head(line) = "#"
       THEN replaceNoOpCharsDroppingRuns(Drop(line, RunLen(line, "#")))
       ELSE <<Head(line)>> \o replaceNoOpCharsDroppingRuns(Tail(line))

\* replaceNoOpChars: escapeRegex `#+`, every match s replaced by s[1:].
RECURSIVE replaceNoOpChars(_)
replaceNoOpChars(line) ==
  IF line = <<>> THEN <<>>
  ELSE IF Head(line) = "#"
       THEN LET k == RunLen(line, "#")
            IN  SubSeq(line, 2, k) \o replaceNoOpChars(Drop(line, k))
       ELSE <<Head(line)>> \o replaceNoOpChars(Tail(line))

\* spaceRegexp.ReplaceAllString(s, " "): every run of \s becomes one space.
RECURSIVE CollapseSpaces(_)
CollapseSpaces(s) ==
  IF s = <<>> THEN <<>>
  ELSE IF IsReSpace(Head(s))
       THEN <<" ">> \o CollapseSpaces(Drop(s, LeadingReSpaces(s)))
       ELSE <<Head(s)>> \o CollapseSpaces(Tail(s))

\* isTopLevelName: topLevelStart `^\s*\*` matches.
isTopLevelName(name) ==
  LET t == Drop(name, LeadingReSpaces(name))
  IN  t # <<>> /\ Head(t) = "*"

canonicalCodeName(name) ==
  LET n1 == CollapseSpaces(TrimSpace(name))
      n2 == IF ~isTopLevelName(n1) THEN ToLower(n1) ELSE n1
  IN  replaceNoOpChars(n2)

\* trimQuotes
trimQuotes(s) == CutSuffix(CutPrefix(TrimSpace(s), <<"\"">>), <<"\"">>)

\* strings.Split(s, "/")
RECURSIVE SplitSlash(_)
SplitSlash(s) ==
  IF \A i \in 1..Len(s) : s[i] # "/" THEN <<s>>
  ELSE LET k == CHOOSE i \in 1..Len(s) :
                  s[i] = "/" /\ \A j \in 1..(i - 1) : s[j] # "/"
       IN  <<Take(s, k - 1)>> \o SplitSlash(Drop(s, k))

\* The elements of a path after filepath.Clean's rules: empty and "."
\* elements go, ".." removes the element before it (or stays, in a path that
\* is not rooted and has nothing to remove).
RECURSIVE CleanSegs(_, _, _)
CleanSegs(segs, acc, rooted) ==
  IF segs = <<>> THEN acc
  ELSE LET g == Head(segs)
       IN  IF g = <<>> \/ g = <<".">> THEN CleanSegs(Tail(segs), acc, rooted)
           ELSE IF g = <<".", ".">>
                THEN IF acc # <<>> /\ acc[Len(acc)] # <<".", ".">>
                     THEN CleanSegs(Tail(segs), Take(acc, Len(acc) - 1), rooted)
                     ELSE IF rooted THEN CleanSegs(Tail(segs), acc, rooted)
                     ELSE CleanSegs(Tail(segs), Append(acc, g), rooted)
                ELSE CleanSegs(Tail(segs), Append(acc, g), rooted)

RECURSIVE JoinSlash(_)
JoinSlash(segs) ==
  IF segs = <<>> THEN <<>>
  ELSE IF Len(segs) = 1 THEN Head(segs)
  ELSE Head(segs) \o <<"/">> \o JoinSlash(Tail(segs))

\* filepath.Clean (Unix)
Clean(path) ==
  LET rooted == path # <<>> /\ Head(path) = "/"
      body   == JoinSlash(CleanSegs(SplitSlash(path), <<>>, rooted))
  IN  IF rooted THEN <<"/">> \o body
      ELSE IF body = <<>> THEN <<".">> ELSE body

TANGLE_OUT_EXT == <<".", "g", "o">>
GLITTER_EXT == <<".", "g", "w">>

\* createOutputFilename
createOutputFilename(name) == CutSuffix(Clean(name), GLITTER_EXT) \o TANGLE_OUT_EXT

\* s without its leading and trailing \s.
StripRe(s) ==
  LET a == LeadingReSpaces(s)
  IN  IF a = Len(s) THEN <<>>
      ELSE SubSeq(s, a + 1, Len(s) - TrailingReSpaces(s))

\* `\s*(\d+)?\s*$` on the rest of a top-level name: [ok, digits].
TopLevelTail(t) ==
  LET d == StripRe(t)
  IN  [ok |-> \A i \in 1..Len(d) : IsDigit(d[i]), digits |-> d]

\* topLevelRegex.FindStringSubmatch:
\*   ^\*\s*(".*")?\s*(\d+)?\s*$
\* [ok, g1, g2]: the groups, "" for a group that took no part.  The greedy
\* ".*" ends at the last quote, as only \s and digits may follow the group.
topLevelRegex(name) ==
  LET fail == [ok |-> FALSE, g1 |-> <<>>, g2 |-> <<>>]
  IN  IF name = <<>> \/ Head(name) # "*" THEN fail
      ELSE LET r  == Tail(name)
               r1 == Drop(r, LeadingReSpaces(r))
           IN  IF r1 # <<>> /\ Head(r1) = "\""
               THEN LET q == CHOOSE i \in 1..Len(r1) :
                               r1[i] = "\"" /\ \A j \in (i + 1)..Len(r1) : r1[j] # "\""
                        t == TopLevelTail(Drop(r1, q))
                    IN  IF q > 1 /\ t.ok
                        THEN [ok |-> TRUE, g1 |-> Take(r1, q), g2 |-> t.digits]
                        ELSE fail
               ELSE LET t == TopLevelTail(r1)
                    IN  IF t.ok THEN [ok |-> TRUE, g1 |-> <<>>, g2 |-> t.digits]
                        ELSE fail

\* A pass that takes the order only, never the file name.
parseTopLevelGroupOrderOnly(acc, g) ==
  IF Atoi(g).ok THEN [acc EXCEPT !.order = Atoi(g).val] ELSE acc

\* One pass of parseTopLevelName's loop over the groups.
parseTopLevelGroup(acc, g) ==
  IF HasPrefix(g, <<"\"">>)
  THEN [acc EXCEPT !.filename = Clean(trimQuotes(g))]
  ELSE IF Atoi(g).ok THEN [acc EXCEPT !.order = Atoi(g).val] ELSE acc

\* A parseTopLevelName that takes a name against the grammar as `*`.
parseTopLevelNameAcceptingAll(name, defaultFile) ==
  LET subs == topLevelRegex(name)
  IN  IF ~subs.ok THEN [filename |-> defaultFile, order |-> 0, ok |-> TRUE]
      ELSE parseTopLevelGroup(
             parseTopLevelGroup(
               [filename |-> defaultFile, order |-> 0, ok |-> TRUE], subs.g1),
             subs.g2)

\* parseTopLevelName: [filename, order, ok]
parseTopLevelName(name, defaultFile) ==
  LET subs == topLevelRegex(name)
  IN  IF ~subs.ok THEN [filename |-> <<>>, order |-> 0, ok |-> FALSE]
      ELSE parseTopLevelGroup(
             parseTopLevelGroup(
               [filename |-> defaultFile, order |-> 0, ok |-> TRUE], subs.g1),
             subs.g2)

\* splitTopLevelName: [filename, order, err]
splitTopLevelName(name) ==
  LET subs == topLevelRegex(name)
  IN  IF ~subs.ok \/ ~Atoi(subs.g2).ok
      THEN [filename |-> <<>>, order |-> 0, err |-> TRUE]
      ELSE [filename |-> trimQuotes(subs.g1), order |-> Atoi(subs.g2).val,
            err |-> FALSE]

\* fmt.Sprintf("* \"%s\" %d", filename, order)
TopLevelKey(filename, order) ==
  <<"*", " ", "\"">> \o filename \o <<"\"", " ">> \o Itoa(order)

(***************************************************************************)
(* Lines: computeLineType, the include directive, code references          *)
(***************************************************************************)

S_include == <<"@", "i", "n", "c", "l", "u", "d", "e">>
S_glitter == <<"@", "g", "l", "i", "t", "t", "e", "r">>

\* lineMatchesWithArg(line, includeRegex):  ^\s*@include\s+"(.+)"\s*$
\* on the trimmed line.  [ok, arg]
matchInclude(line) ==
  LET t    == StripRe(TrimSpace(line))
      r    == Drop(t, Len(S_include))
      w    == LeadingReSpaces(r)
      q    == Drop(r, w)
      fail == [ok |-> FALSE, arg |-> <<>>]
  IN  IF HasPrefix(t, S_include) /\ w >= 1 /\ Len(q) >= 3
         /\ Head(q) = "\"" /\ q[Len(q)] = "\""
      THEN [ok |-> TRUE, arg |-> SubSeq(q, 2, Len(q) - 1)]
      ELSE fail

\* textStartRegex  ^\s*@(:+)  on the trimmed line.
matchTextStart(line) ==
  LET t == StripRe(TrimSpace(line))
  IN  IF Len(t) >= 2 /\ t[1] = "@" /\ t[2] = ":"
      THEN [ok |-> TRUE, arg |-> Take(Tail(t), RunLen(Tail(t), ":"))]
      ELSE [ok |-> FALSE, arg |-> <<>>]

\* codeStartRegex  ^\s*<<(.+)>>=\s*$  on the trimmed line.
matchCodeStart(line) ==
  LET t == StripRe(TrimSpace(line))
  IN  IF Len(t) >= 6 /\ HasPrefix(t, <<"<", "<">>) /\ HasSuffix(t, <<">", ">", "=">>)
      THEN [ok |-> TRUE, arg |-> SubSeq(t, 3, Len(t) - 3)]
      ELSE [ok |-> FALSE, arg |-> <<>>]

\* glitterRegex  ^\s*@glitter(\s.*)?$  on the trimmed line.
matchGlitter(line) ==
  LET t == TrimSpace(line)
      u == Drop(t, LeadingReSpaces(t))
  IN  IF HasPrefix(u, S_glitter) /\ (Len(u) = 8 \/ IsReSpace(u[9]))
      THEN [ok |-> TRUE, arg |-> Drop(u, 8)]
      ELSE [ok |-> FALSE, arg |-> <<>>]

\* computeLineType: [type, arg]
computeLineType(line) ==
  IF matchTextStart(line).ok
  THEN [type |-> "TextStartLine", arg |-> matchTextStart(line).arg]
  ELSE IF matchCodeStart(line).ok
  THEN [type |-> "CodeStartLine", arg |-> matchCodeStart(line).arg]
  ELSE IF matchGlitter(line).ok
  THEN [type |-> "GlitterLine", arg |-> matchGlitter(line).arg]
  ELSE [type |-> "OtherLine", arg |-> <<>>]

\* Where a `>>` that can close a reference opened at i stands: .+? needs one
\* code point at least between the brackets.
RefEnds(line, i) ==
  {j \in (i + 3)..(Len(line) - 1) : line[j] = ">" /\ line[j + 1] = ">"}

RefStarts(line) ==
  {i \in 1..(Len(line) - 1) :
     line[i] = "<" /\ line[i + 1] = "<" /\ RefEnds(line, i) # {}}

SetMin(S) == CHOOSE x \in S : \A y \in S : x <= y

\* codeRefRegex.FindStringSubmatchIndex:  <<(.+?)>>  leftmost, then shortest.
\* [found, before, name, after]: line[:pos[0]], line[pos[2]:pos[3]], line[pos[1]:]
codeRefRegex(line) ==
  IF RefStarts(line) = {}
  THEN [found |-> FALSE, before |-> <<>>, name |-> <<>>, after |-> <<>>]
  ELSE LET i == SetMin(RefStarts(line))
           j == SetMin(RefEnds(line, i))
       IN  [found |-> TRUE, before |-> Take(line, i - 1),
            name |-> SubSeq(line, i + 2, j - 1), after |-> Drop(line, j + 1)]

\* Whether the text holds a `<<name>>` reference.
HasRef(line) == RefStarts(line) # {}

(***************************************************************************)
(* Blocks: a Block is a sequence of SourceLines [pos, line], a FilePos is  *)
(* [filename, lineno].  The block store maps canonical names to Blocks.    *)
(***************************************************************************)

SourceLine(filename, lineno, line) ==
  [pos |-> [filename |-> filename, lineno |-> lineno], line |-> line]

\* A lineCommand with the line number before the file name.
lineCommandNumberFirst(pos) ==
  <<"/", "*", "l", "i", "n", "e", " ">> \o Itoa(pos.lineno) \o <<":">>
    \o pos.filename \o <<"*", "/">>

\* Options.GetConfig("TangleLineRef"):  /*line $filename:$lineno*/
\* lineCommand expands it with os.Expand (Options.Command = "tangle").
lineCommand(pos) ==
  <<"/", "*", "l", "i", "n", "e", " ">> \o pos.filename \o <<":">>
    \o Itoa(pos.lineno) \o <<"*", "/">>

\* emptyLineRegex  ^\s*$
emptyLineRegex(line) == \A i \in 1..Len(line) : IsReSpace(line[i])

\* removeBlankLines: [panic, lines].  first and last are Go's 0-based
\* indices; block.lines[first : last+1] panics when first > last+1, which
\* is the case of two or more lines that are all blank.
removeBlankLines(lines) ==
  LET n       == Len(lines)
      nonblank == {i \in 1..n : ~emptyLineRegex(lines[i].line)}
      first   == IF n = 0 THEN 0
                 ELSE IF nonblank = {} THEN n - 1
                 ELSE SetMin(nonblank) - 1
      last    == IF nonblank = {} THEN -1
                 ELSE (CHOOSE x \in nonblank : \A y \in nonblank : y <= x) - 1
  IN  IF first > last + 1 THEN [panic |-> TRUE, lines |-> <<>>]
      ELSE [panic |-> FALSE, lines |-> SubSeq(lines, first + 1, last + 1)]

\* whitespacePrefixLength: the index `for i, c := range line` gives is a
\* byte offset; the fall-through value is a count of code points.
whitespacePrefixLength(line) ==
  LET k == LeadingSpaces(line)
  IN  IF k < Len(line) THEN Bytes(Take(line, k)) ELSE Len(line)

\* The first loop of deindentBlock.
RECURSIVE deindentMinSpace(_, _)
deindentMinSpace(lines, minSpace) ==
  IF lines = <<>> THEN minSpace
  ELSE LET l == Head(lines).line
       IN  IF Len(TrimSpace(l)) = 0 THEN deindentMinSpace(Tail(lines), minSpace)
           ELSE deindentMinSpace(Tail(lines),
                  Min(IF minSpace < 0 THEN Bytes(l) ELSE minSpace,
                      whitespacePrefixLength(l)))

\* deindentBlock: rl[minSpace:] drops minSpace code points.
deindentBlock(lines) ==
  LET minSpace == deindentMinSpace(lines, -1)
  IN  IF minSpace < 0 THEN lines
      ELSE [i \in 1..Len(lines) |->
              IF Len(lines[i].line) >= minSpace
              THEN [lines[i] EXCEPT !.line = Drop(lines[i].line, minSpace)]
              ELSE lines[i]]

\* prependLineNumber
prependLineNumber(lines) ==
  IF Len(lines) > 0
  THEN [lines EXCEPT ![1].line = lineCommand(lines[1].pos) \o lines[1].line]
  ELSE lines

\* An appendBlocks that puts the new lines first.
appendBlocksNewFirst(b1, b2) == b2 \o b1

\* appendBlocks
appendBlocks(b1, b2) == b1 \o b2

\* What finalizeBlock stores for a block under codeName: [panic, blocks].
finalizeBlock(store, name, cur) ==
  LET r  == removeBlankLines(deindentBlock(cur))
      ok == name \in DOMAIN store
      b1 == IF ok THEN store[name] ELSE <<>>
      b2 == IF ok THEN prependLineNumber(r.lines) ELSE r.lines
  IN  [panic |-> r.panic,
       blocks |-> IF r.panic THEN store
                  ELSE [k \in DOMAIN store \cup {name} |->
                          IF k = name THEN appendBlocks(b1, b2) ELSE store[k]]]

(***************************************************************************)
(* expandLine                                                              *)
(***************************************************************************)

\* The depth of nested expandLine calls the model follows.  Go's stack holds
\* far more: a run that goes deeper here is a run whose references form a
\* cycle, which in Go ends in a stack overflow.
MaxExpandDepth == 8

\* A loop body that indents by the number of bytes of before.
expandSubstLineByBytes(before, after, refd, i) ==
  LET l0 == refd[i].line
      l1 == IF i = 1 THEN before \o lineCommand(refd[i].pos) \o l0 ELSE l0
      l2 == IF i = Len(refd) THEN l1 \o after ELSE l1
  IN  IF i # 1 THEN Spaces(Bytes(before)) \o l2 ELSE l2

\* The line that iteration i (1-based) of expandLine's loop over the lines
\* of the referenced block builds, before it is expanded in turn.
expandSubstLine(before, after, refd, i) ==
  LET l0 == refd[i].line
      l1 == IF i = 1 THEN before \o lineCommand(refd[i].pos) \o l0 ELSE l0
      l2 == IF i = Len(refd) THEN l1 \o after ELSE l1
  IN  IF i # 1 THEN Spaces(Len(before)) \o l2 ELSE l2

\* The lines expandLine's loop builds for one reference.
expandSubst(before, after, refd) ==
  [i \in 1..Len(refd) |->
     [pos |-> refd[i].pos, line |-> expandSubstLine(before, after, refd, i)]]

ExpandOk(lines) ==
  [err |-> "", lines |-> lines, pos |-> [filename |-> <<>>, lineno |-> 0],
   name |-> <<>>]

ExpandErr(kind, loc, name) ==
  [err |-> kind, lines |-> <<>>, pos |-> loc, name |-> name]

\* expandLine: [err, lines, pos, name].  err is "" (lines is the list
\* returned), "toplevel" (cannot reference top-level block), "unknown"
\* (unknown block reference), both with the position and the name of the
\* error message, or "overflow" (the recursion does not end).
RECURSIVE expandLine(_, _, _, _)
RECURSIVE expandLines(_, _, _, _)

\* An expandLine whose after starts at the reference, not behind it.
expandLineAfterFromTheReference(blocks, line, loc, depth) ==
  LET pos       == codeRefRegex(line)
      blockName == canonicalCodeName(TrimSpace(pos.name))
  IN  IF ~pos.found THEN ExpandOk(<<line>>)
      ELSE IF isTopLevelName(blockName) THEN ExpandErr("toplevel", loc, blockName)
      ELSE IF blockName \notin DOMAIN blocks THEN ExpandErr("unknown", loc, blockName)
      ELSE IF Len(blocks[blockName]) = 0
           THEN ExpandOk(<<pos.before \o <<" ">> \o pos.after>>)
      ELSE IF depth >= MaxExpandDepth
           THEN ExpandErr("overflow", loc, blockName)
      ELSE expandLines(blocks,
                       expandSubst(pos.before,
                                   <<"<", "<">> \o pos.name \o <<">", ">">>
                                     \o pos.after,
                                   blocks[blockName]),
                       <<>>, depth + 1)

expandLine(blocks, line, loc, depth) ==
  LET pos       == codeRefRegex(line)
      blockName == canonicalCodeName(TrimSpace(pos.name))
  IN  IF ~pos.found THEN ExpandOk(<<line>>)
      ELSE IF isTopLevelName(blockName) THEN ExpandErr("toplevel", loc, blockName)
      ELSE IF blockName \notin DOMAIN blocks THEN ExpandErr("unknown", loc, blockName)
      ELSE IF Len(blocks[blockName]) = 0
           THEN ExpandOk(<<pos.before \o <<" ">> \o pos.after>>)
      ELSE IF depth >= MaxExpandDepth
           THEN ExpandErr("overflow", loc, blockName)
      ELSE expandLines(blocks,
                       expandSubst(pos.before, pos.after, blocks[blockName]),
                       <<>>, depth + 1)

\* The loop of expandLine: each built line is expanded and its list pushed
\* back; the first error ends the loop.
expandLines(blocks, sub, out, depth) ==
  IF sub = <<>> THEN ExpandOk(out)
  ELSE LET r == expandLine(blocks, Head(sub).line, Head(sub).pos, depth)
       IN  IF r.err # "" THEN r
           ELSE expandLines(blocks, Tail(sub), out \o r.lines, depth)

(***************************************************************************)
(* State                                                                   *)
(***************************************************************************)

VARIABLES
  \* The global Options: [Command, DisallowMultipleIncludes, Config], Config
  \* holding the entries that ReadConfig has set over the defaults.
  Options,
  \* The file system: cleaned path -> [lines, readErr].  A path outside the
  \* domain cannot be opened; readErr is a read that fails after the lines.
  files,
  \* GlitterScanner
  filenames,                 \* g.filenames
  stack,                     \* g.stack: a sequence of FilePos
  processedFiles,            \* g.processedFiles
  disallowMultipleIncludes,  \* g.disallowMultipleIncludes
  gerr,                      \* g.err: "nil" or the error
  \* The producer goroutine of Lines()
  ppc,       \* where it stands: next, open, scan, send, ret, close, closed
  fi,        \* the index of `for _, f := range g.filenames`
  callArg,   \* the argument of the pending readGlitterSourceFile call
  pend,      \* the SourceLine of the pending send on g.lines
  retErr,    \* the error a returning readGlitterStream carries
  \* A consumer that ranges over Lines() and then calls Err()
  cpc,        \* recv, done; in Tangle: trecv, depth, line, sort, write, done
  delivered,  \* the SourceLines received from g.lines, in order
  cerr,       \* what Err() returned after the close
  \* tangleReadBlocks
  blocks,           \* the block store: canonical name -> Block
  codeName,         \* the name of the block being read
  currentBlock,     \* [nil, lines]: *Block, nil or the lines appended so far
  state,            \* Start, InText, InCode
  currentFilename,  \* the output file of a top-level name without one
  defaultFilename,  \* the main output file
  defLog,           \* the "At code block" trace: [at, name] per CodeStart
  \* Tangle
  terr,        \* how Tangle ended: [kind, pos, name]
  topBlocks,   \* the sorted names of the top-level blocks
  bi,          \* the index of `for _, b := range topBlocks`
  outName,     \* Tangle's currentFilename
  curOut,      \* [open, name]: the output file that is open, if any
  out,         \* what was done to the file system, in order: [op, file, text]
  \* Weave
  isHiding,        \* inside @glitter hide .. @glitter show
  important,       \* the last text block started with @:: or more
  weaveState,      \* Weave's state: Start, InText, InCode
  weaveFilename,   \* Weave's currentFilename
  block,           \* the lines of the code block being read
  seenBlocks,      \* canonical name -> WeaveBlockInfo
  blockId,         \* the last block number given out
  currentBlockId,  \* the number of the enclosing code block, or -1
  wout,            \* the strings written to the writer w, in order
  werr,            \* how Weave ended: "" while it runs, "ok", or the error
  \* executor
  varStack,        \* the Stack that the caller holds: a sequence of frames
  varErr,          \* the error of the last call that changes the stack
  varResult        \* what the last call of varValue returned

scannerVars == <<filenames, stack, processedFiles, disallowMultipleIncludes,
                 gerr, ppc, fi, callArg, pend, retErr>>

tangleVars == <<blocks, codeName, currentBlock, state, currentFilename,
                defaultFilename, defLog, terr, topBlocks, bi, outName, curOut,
                out>>

weaveVars == <<isHiding, important, weaveState, weaveFilename, block,
               seenBlocks, blockId, currentBlockId, wout, werr>>

consumerVars == <<cpc, delivered, cerr, tangleVars, weaveVars>>

executorVars == <<varStack, varErr, varResult>>

vars == <<Options, files, scannerVars, consumerVars, executorVars>>

\* varValue has not been called.
NoResult == [name |-> <<>>, val |-> <<>>, err |-> "none"]

\* The executor is not in use.
ExecutorIdle ==
  /\ varStack = <<>>
  /\ varErr = ""
  /\ varResult = NoResult

MAX_INCLUDE_DEPTH == 20

NoLine == SourceLine(<<>>, 0, <<>>)

\* CurrentFilePos, Depth
CurrentFilePos == stack[Len(stack)]
Depth == Len(stack)

\* A pushFile that counts the line about to be read as read.
pushFileCountingFromOne(st, filename) ==
  Append(st, [filename |-> filename, lineno |-> 1])

\* pushFile, popFile
pushFile(st, filename) == Append(st, [filename |-> filename, lineno |-> 0])
popFile(st) == Take(st, Len(st) - 1)

\* A newSourceLine that takes the position of the top-level input file.
newSourceLineOfInputFile(st, line) == [pos |-> st[1], line |-> line]

\* newSourceLine, on the stack as it is after lineno++
newSourceLine(st, line) == [pos |-> st[Len(st)], line |-> line]

(***************************************************************************)
(* The producer goroutine                                                  *)
(***************************************************************************)

\* Lines(): the head of the loop over g.filenames; after the last file the
\* goroutine goes on to close the channel.
LinesNext ==
  /\ ppc = "next"
  /\ IF fi <= Len(filenames)
     THEN /\ callArg' = filenames[fi]
          /\ ppc' = "open"
     ELSE /\ ppc' = "close"
          /\ UNCHANGED callArg
  /\ UNCHANGED <<Options, executorVars, files, filenames, stack, processedFiles,
                 disallowMultipleIncludes, gerr, fi, pend, retErr>>
  /\ UNCHANGED consumerVars

\* A Lines() that goes on to the next input file when one cannot be opened.
ReturnToIgnoringError(st, err) ==
  IF st = <<>>
  THEN /\ fi' = fi + 1
       /\ ppc' = "next"
       /\ UNCHANGED <<gerr, retErr>>
  ELSE IF err = "nil"
       THEN /\ ppc' = "scan"
            /\ UNCHANGED <<fi, gerr, retErr>>
       ELSE /\ ppc' = "ret"
            /\ retErr' = err
            /\ UNCHANGED <<fi, gerr>>

\* Where the producer goes on when a readGlitterSourceFile call that pushed
\* no file returns err to its caller: the loop of Lines (the stack is
\* empty) or the loop of readGlitterStream of the including file.
ReturnTo(st, err) ==
  IF st = <<>>
  THEN IF err = "nil"
       THEN /\ fi' = fi + 1
            /\ ppc' = "next"
            /\ UNCHANGED <<gerr, retErr>>
       ELSE /\ gerr' = err
            /\ ppc' = "close"
            /\ UNCHANGED <<fi, retErr>>
  ELSE IF err = "nil"
       THEN /\ ppc' = "scan"
            /\ UNCHANGED <<fi, gerr, retErr>>
       ELSE /\ ppc' = "ret"
            /\ retErr' = err
            /\ UNCHANGED <<fi, gerr>>

\* A skip of the files already processed that does not ask for the mode.
AlreadyProcessedInEveryMode(filename) == filename \in processedFiles

\* Whether readGlitterSourceFile skips the (cleaned) file.
AlreadyProcessed(filename) ==
  disallowMultipleIncludes /\ filename \in processedFiles

\* readGlitterSourceFile up to the call of readGlitterStream: the skip of a
\* file already processed, os.Open, processedFiles.Insert, pushFile.
Open ==
  /\ ppc = "open"
  /\ LET filename == Clean(callArg)
     IN  IF AlreadyProcessed(filename)
         THEN /\ ReturnTo(stack, "nil")
              /\ UNCHANGED <<stack, processedFiles>>
         ELSE IF filename \notin DOMAIN files
         THEN /\ ReturnTo(stack, "open")
              /\ UNCHANGED <<stack, processedFiles>>
         ELSE /\ processedFiles' = processedFiles \cup {filename}
              /\ stack' = pushFile(stack, filename)
              /\ ppc' = "scan"
              /\ UNCHANGED <<fi, gerr, retErr>>
  /\ UNCHANGED <<Options, executorVars, files, filenames, disallowMultipleIncludes, callArg, pend>>
  /\ UNCHANGED consumerVars

\* A depth test that is off by one.
IncludeTooDeepOffByOne(st) == Len(st) > MAX_INCLUDE_DEPTH

\* Whether readGlitterStream refuses an include at this stack height.
IncludeTooDeep(st) == Len(st) >= MAX_INCLUDE_DEPTH

\* readGlitterStream: one turn of the loop.  scanner.Scan() yields the next
\* line of the file on top of the stack, or ends the loop, and the function
\* returns scanner.Err().
ScanLine ==
  /\ ppc = "scan"
  /\ LET top == CurrentFilePos
         f   == files[top.filename]
     IN  IF top.lineno < Len(f.lines)
         THEN LET line == f.lines[top.lineno + 1]
                  st   == [stack EXCEPT ![Len(stack)].lineno = top.lineno + 1]
                  inc  == matchInclude(line)
              IN  /\ stack' = st
                  /\ IF inc.ok
                     THEN IF IncludeTooDeep(st)
                          THEN /\ ppc' = "ret"
                               /\ retErr' = "depth"
                               /\ UNCHANGED <<callArg, pend>>
                          ELSE /\ ppc' = "open"
                               /\ callArg' = inc.arg
                               /\ UNCHANGED <<retErr, pend>>
                     ELSE /\ ppc' = "send"
                          /\ pend' = newSourceLine(st, line)
                          /\ UNCHANGED <<callArg, retErr>>
         ELSE /\ ppc' = "ret"
              /\ retErr' = IF f.readErr THEN "read" ELSE "nil"
              /\ UNCHANGED <<stack, callArg, pend>>
  /\ UNCHANGED <<Options, executorVars, files, filenames, processedFiles, disallowMultipleIncludes,
                 gerr, fi>>
  /\ UNCHANGED consumerVars

\* readGlitterStream has returned retErr: readGlitterSourceFile pops the
\* file and returns the error to its own caller.
Return ==
  /\ ppc = "ret"
  /\ stack' = popFile(stack)
  /\ IF popFile(stack) = <<>>
     THEN IF retErr = "nil"
          THEN /\ fi' = fi + 1
               /\ ppc' = "next"
               /\ UNCHANGED gerr
          ELSE /\ gerr' = retErr
               /\ ppc' = "close"
               /\ UNCHANGED fi
     ELSE /\ ppc' = IF retErr = "nil" THEN "scan" ELSE "ret"
          /\ UNCHANGED <<fi, gerr>>
  /\ UNCHANGED <<Options, executorVars, files, filenames, processedFiles, disallowMultipleIncludes,
                 callArg, pend, retErr>>
  /\ UNCHANGED consumerVars

\* close(g.lines)
Close ==
  /\ ppc = "close"
  /\ ppc' = "closed"
  /\ UNCHANGED <<Options, executorVars, files, filenames, stack, processedFiles,
                 disallowMultipleIncludes, gerr, fi, callArg, pend, retErr>>
  /\ UNCHANGED consumerVars

\* The producer's half of the hand-over of `g.lines <- line`.
SendDone ==
  /\ ppc = "send"
  /\ ppc' = "scan"
  /\ pend' = NoLine
  /\ UNCHANGED <<Options, executorVars, files, filenames, stack, processedFiles,
                 disallowMultipleIncludes, gerr, fi, callArg, retErr>>

(***************************************************************************)
(* A consumer of the scanner:  for l := range scanner.Lines() { ... }      *)
(* followed by scanner.Err()                                               *)
(***************************************************************************)

\* The hand-over of one line on the unbuffered channel g.lines.
Recv ==
  /\ cpc = "recv"
  /\ SendDone
  /\ delivered' = Append(delivered, pend)
  /\ UNCHANGED <<cpc, cerr, tangleVars, weaveVars>>

\* The range loop ends when the channel is closed; the consumer calls Err().
ConsumerEnd ==
  /\ cpc = "recv"
  /\ ppc = "closed"
  /\ cpc' = "done"
  /\ cerr' = gerr
  /\ UNCHANGED <<Options, executorVars, files, scannerVars, delivered, tangleVars, weaveVars>>

(***************************************************************************)
(* tangleReadBlocks: the consumer of Tangle                                *)
(***************************************************************************)

NoPos == [filename |-> <<>>, lineno |-> 0]

\* How Tangle ended.  kind is "" while it runs, "ok" for a nil error, or:
\*   open, read, depth   the scanner's error (scanner.Err())
\*   badname             badly formated top-level name (pos, name)
\*   cmp                 getTopLevelBlocks' cmp error
\*   notop               no top-level code blocks found
\*   toplevel, unknown   expandLine's errors (pos, name)
\*   panic               a run-time panic of the consumer
\*   overflow            expandLine's recursion did not end
TangleErr(kind, pos, name) == [kind |-> kind, pos |-> pos, name |-> name]

Running == TangleErr("", NoPos, <<>>)

NilBlock == [nil |-> TRUE, lines |-> <<>>]
NewBlock == [nil |-> FALSE, lines |-> <<>>]

EmptyStore == [k \in {} |-> <<>>]

\* The locals of tangleReadBlocks and of Tangle as they are declared.
TangleStart ==
  /\ blocks = EmptyStore
  /\ codeName = <<>>
  /\ currentBlock = NilBlock
  /\ state = "Start"
  /\ currentFilename = <<>>
  /\ defaultFilename = <<>>
  /\ defLog = <<>>
  /\ terr = Running
  /\ topBlocks = <<>>
  /\ bi = 1
  /\ outName = <<>>
  /\ curOut = [open |-> FALSE, name |-> <<>>]
  /\ out = <<>>

writeVars == <<topBlocks, bi, outName, curOut, out>>

\* The closure finalizeBlock of tangleReadBlocks on its captured variables:
\* [panic, blocks]; codeName and currentBlock are reset by the caller below.
finalizeCurrent ==
  IF currentBlock.nil THEN [panic |-> FALSE, blocks |-> blocks]
  ELSE finalizeBlock(blocks, codeName, currentBlock.lines)

\* The locals of the read pass after one turn of the loop; an error or a
\* panic ends Tangle.
ReadPass(b, cn, cb, st, cf, df, dl, e) ==
  /\ blocks' = b
  /\ codeName' = cn
  /\ currentBlock' = cb
  /\ state' = st
  /\ currentFilename' = cf
  /\ defaultFilename' = df
  /\ defLog' = dl
  /\ terr' = e
  /\ cpc' = IF e.kind = "" THEN "trecv" ELSE "done"

ReadPanics ==
  ReadPass(blocks, codeName, currentBlock, state, currentFilename,
           defaultFilename, defLog, TangleErr("panic", NoPos, <<>>))

\* `for l := range scanner.Lines()`: one line is handed over.
TangleRecv ==
  /\ cpc = "trecv"
  /\ SendDone
  /\ delivered' = Append(delivered, pend)
  /\ cpc' = "depth"
  /\ UNCHANGED <<cerr, tangleVars, weaveVars>>

\* The test that opens the loop body.  scanner.Depth() reads the stack of
\* the producer goroutine, which runs on without synchronisation; the test
\* short-circuits, the stack is read only if the names differ.
TangleDepth ==
  /\ cpc = "depth"
  /\ LET l == delivered[Len(delivered)]
     IN  defaultFilename' =
           IF l.pos.filename # defaultFilename /\ Depth = 1
           THEN createOutputFilename(l.pos.filename)
           ELSE defaultFilename
  /\ cpc' = "line"
  /\ UNCHANGED <<Options, executorVars, files, scannerVars, delivered, cerr, blocks, codeName,
                 currentBlock, state, currentFilename, defLog, terr, writeVars,
                 weaveVars>>

\* case CodeStartLine, after finalizeBlock has stored b.
TangleCodeStart(arg, b) ==
  LET cn0 == canonicalCodeName(arg)
      p   == parseTopLevelName(cn0, currentFilename)
      fn  == IF Len(p.filename) = 0 \/ p.filename = <<".">>
             THEN defaultFilename ELSE p.filename
      cn  == IF isTopLevelName(cn0) THEN TopLevelKey(fn, p.order) ELSE cn0
      cf  == IF isTopLevelName(cn0) THEN fn ELSE currentFilename
  IN  IF stack = <<>> THEN ReadPanics
      ELSE IF isTopLevelName(cn0) /\ ~p.ok
      THEN ReadPass(b, cn0, NilBlock, "InCode", currentFilename,
                    defaultFilename, defLog,
                    TangleErr("badname", CurrentFilePos, cn0))
      ELSE ReadPass(b, cn, NewBlock, "InCode", cf, defaultFilename,
                    Append(defLog, [at |-> Len(delivered), name |-> cn]),
                    Running)

\* The switch on the type of the line.  scanner.CurrentFilePos() indexes the
\* producer's stack: an empty stack is an index out of range.
TangleLine ==
  /\ cpc = "line"
  /\ LET l   == delivered[Len(delivered)]
         t   == computeLineType(l.line)
         fin == finalizeCurrent
     IN  CASE t.type = "TextStartLine" ->
                IF fin.panic THEN ReadPanics
                ELSE ReadPass(fin.blocks, <<>>, NilBlock, "InText",
                              currentFilename, defaultFilename, defLog, Running)
           [] t.type = "CodeStartLine" ->
                IF fin.panic THEN ReadPanics
                ELSE TangleCodeStart(t.arg, fin.blocks)
           [] t.type = "GlitterLine" ->
                ReadPass(blocks, codeName, currentBlock, state,
                         createOutputFilename(l.pos.filename),
                         createOutputFilename(l.pos.filename), defLog, Running)
           [] OTHER ->
                ReadPass(blocks, codeName,
                         IF state = "InCode"
                         THEN [currentBlock EXCEPT !.lines = Append(@, l)]
                         ELSE currentBlock,
                         state, currentFilename, defaultFilename, defLog, Running)
  /\ UNCHANGED <<Options, executorVars, files, scannerVars, delivered, cerr, writeVars,
                 weaveVars>>

\* The channel is closed: scanner.Err(), the last finalizeBlock, the return.
TangleEnd ==
  /\ cpc = "trecv"
  /\ ppc = "closed"
  /\ cerr' = gerr
  /\ LET fin == finalizeCurrent
     IN  IF gerr # "nil"
         THEN /\ terr' = TangleErr(gerr, NoPos, <<>>)
              /\ cpc' = "done"
              /\ UNCHANGED <<blocks, codeName, currentBlock>>
         ELSE IF fin.panic
         THEN /\ terr' = TangleErr("panic", NoPos, <<>>)
              /\ cpc' = "done"
              /\ UNCHANGED <<blocks, codeName, currentBlock>>
         ELSE /\ blocks' = fin.blocks
              /\ codeName' = <<>>
              /\ currentBlock' = NilBlock
              /\ cpc' = "sort"
              /\ UNCHANGED terr
  /\ UNCHANGED <<Options, executorVars, files, scannerVars, delivered, state, currentFilename,
                 defaultFilename, defLog, writeVars, weaveVars>>

(***************************************************************************)
(* Tangle: the sorted top-level blocks are expanded and written            *)
(***************************************************************************)

\* The keys of the store that getTopLevelBlocks collects.
TopLevelNames(store) == {k \in DOMAIN store : isTopLevelName(k)}

\* A comparison function that compares the orders as text.
cmpTopLevelOrderAsText(a, b) ==
  LET sa == splitTopLevelName(a)
      sb == splitTopLevelName(b)
      n  == CompareStr(sa.filename, sb.filename)
  IN  IF n # 0 THEN n ELSE CompareStr(Itoa(sa.order), Itoa(sb.order))

\* A comparison function that looks at the orders alone.
cmpTopLevelByOrderAlone(a, b) ==
  CompareInt(splitTopLevelName(a).order, splitTopLevelName(b).order)

\* The comparison function given to slices.SortFunc.
cmpTopLevel(a, b) ==
  LET sa == splitTopLevelName(a)
      sb == splitTopLevelName(b)
      n  == CompareStr(sa.filename, sb.filename)
  IN  IF n # 0 THEN n ELSE CompareInt(sa.order, sb.order)

\* The comparison function panics on a name that splitTopLevelName rejects;
\* it is called when there are two names at least.
sortPanics(names) ==
  Cardinality(names) >= 2 /\ \E k \in names : splitTopLevelName(k).err

\* slices.SortFunc: the names in the order of the comparison function.
RECURSIVE sortTopLevel(_)
sortTopLevel(names) ==
  IF names = {} THEN <<>>
  ELSE LET m == CHOOSE x \in names : \A y \in names : cmpTopLevel(x, y) <= 0
       IN  <<m>> \o sortTopLevel(names \ {m})

\* getTopLevelBlocks and the test that follows it in Tangle.
TangleSort ==
  /\ cpc = "sort"
  /\ LET names == TopLevelNames(blocks)
     IN  IF sortPanics(names)
         THEN /\ terr' = TangleErr("cmp", NoPos, <<>>)
              /\ cpc' = "done"
              /\ UNCHANGED topBlocks
         ELSE IF names = {}
         THEN /\ terr' = TangleErr("notop", NoPos, <<>>)
              /\ cpc' = "done"
              /\ UNCHANGED topBlocks
         ELSE /\ topBlocks' = sortTopLevel(names)
              /\ cpc' = "write"
              /\ UNCHANGED terr
  /\ UNCHANGED <<Options, executorVars, files, scannerVars, delivered, cerr, blocks, codeName,
                 currentBlock, state, currentFilename, defaultFilename, defLog,
                 bi, outName, curOut, out, weaveVars>>

\* One thing done to the file system: op is "create" (os.Create), "str"
\* (WriteString of text), "line" (text and a newline), "close" (Flush and
\* Close).
Event(op, file, text) == [op |-> op, file |-> file, text |-> text]

\* A closeFile that leaves the file as it is.
closeFileNever == <<>>

\* The closure closeFile of Tangle.
closeFile == IF curOut.open THEN <<Event("close", curOut.name, <<>>)>> ELSE <<>>

\* The loop of expandAndWriteBlock: [err, events], err as expandLine gives it.
RECURSIVE writeLines(_, _, _, _)
writeLines(store, lines, f, acc) ==
  IF lines = <<>> THEN [err |-> ExpandOk(<<>>), events |-> acc]
  ELSE LET r == expandLine(store, Head(lines).line, Head(lines).pos, 0)
       IN  IF r.err # "" THEN [err |-> r, events |-> acc]
           ELSE writeLines(store, Tail(lines), f,
                  acc \o [i \in 1..Len(r.lines) |->
                            Event("line", f, replaceNoOpChars(r.lines[i]))])

\* expandAndWriteBlock
expandAndWriteBlock(b, store, f) ==
  writeLines(store, b, f,
             IF Len(b) > 0 THEN <<Event("str", f, lineCommand(b[1].pos))>>
             ELSE <<>>)

\* Tangle returns e; the deferred closeFile runs (not when the run-time ends
\* the process on a stack overflow).
TangleReturns(e, events) ==
  /\ terr' = e
  /\ cpc' = "done"
  /\ out' = out \o events
            \o (IF e.kind = "overflow" \/ ~curOut'.open THEN <<>>
                ELSE <<Event("close", curOut'.name, <<>>)>>)

\* One turn of the loop over topBlocks, or the return after the last turn.
\* (os.Create is taken to succeed.)
TangleWrite ==
  /\ cpc = "write"
  /\ IF bi > Len(topBlocks)
     THEN /\ UNCHANGED <<bi, outName, curOut>>
          /\ TangleReturns(TangleErr("ok", NoPos, <<>>), <<>>)
     ELSE LET b == topBlocks[bi]
              s == splitTopLevelName(b)
              f == s.filename
              w == expandAndWriteBlock(blocks[b], blocks, f)
          IN  IF s.err
              THEN /\ UNCHANGED <<bi, outName, curOut>>
                   /\ TangleReturns(TangleErr("split", NoPos, b), <<>>)
              ELSE IF f = outName /\ ~curOut.open
              THEN /\ UNCHANGED <<bi, outName, curOut>>
                   /\ TangleReturns(TangleErr("panic", NoPos, <<>>), <<>>)
              ELSE /\ outName' = f
                   /\ curOut' = [open |-> TRUE, name |-> f]
                   /\ LET opened == IF f # outName
                                    THEN closeFile \o <<Event("create", f, <<>>)>>
                                    ELSE <<Event("str", f, <<"\n">>)>>
                      IN  IF w.err.err # ""
                          THEN /\ TangleReturns(
                                    TangleErr(w.err.err, w.err.pos, w.err.name),
                                    opened \o w.events)
                               /\ UNCHANGED bi
                          ELSE /\ out' = out \o opened \o w.events
                               /\ bi' = bi + 1
                               /\ UNCHANGED <<terr, cpc>>
  /\ UNCHANGED <<Options, executorVars, files, scannerVars, delivered, cerr, blocks, codeName,
                 currentBlock, state, currentFilename, defaultFilename, defLog,
                 topBlocks, weaveVars>>

(***************************************************************************)
(* Options and templates                                                   *)
(***************************************************************************)

\* NewGlitterOptions: the defaults of Options.Config that the engines read
\* (Shell, WeaveCommand and TangleCommand are read after the run only).  The
\* defaults hold `$n` as two characters, and the key of the StartBook
\* default is spelt StartBock.
DefaultConfig ==
  [Start |-> <<"\\", "d", "o", "c", "u", "m", "e", "n", "t", "c", "l", "a", "s",
      "s", "{", "g", "l", "i", "t", "t", "e", "r", "t", "e", "x", "}">>,
   StartBock |-> <<"\\", "g", "l", "i", "t", "t", "e", "r", "S", "t", "a", "r", "t",
      "B", "o", "o", "k">>,
   EndBook |-> <<"\\", "g", "l", "i", "t", "t", "e", "r", "E", "n", "d", "B", "o",
      "o", "k">>,
   StartText |-> <<"\\", "g", "l", "i", "t", "t", "e", "r", "S", "t", "a", "r", "t",
      "T", "e", "x", "t">>,
   EndText |-> <<"\\", "g", "l", "i", "t", "t", "e", "r", "E", "n", "d", "T", "e",
      "x", "t", "$", "n">>,
   StartCode |-> <<"\\", "g", "l", "i", "t", "t", "e", "r", "S", "t", "a", "r", "t",
      "C", "o", "d", "e", "{", "$", "1", "}", "$", "n", "\\", "b",
      "e", "g", "i", "n", "{", "l", "s", "t", "l", "i", "s", "t",
      "i", "n", "g", "}">>,
   EndCode |-> <<"\\", "e", "n", "d", "{", "l", "s", "t", "l", "i", "s", "t", "i",
      "n", "g", "}", "\\", "g", "l", "i", "t", "t", "e", "r", "E",
      "n", "d", "C", "o", "d", "e", "$", "n">>,
   CodeEscape |-> <<"@">>,
   CodeRef |-> <<"\\", "g", "l", "i", "t", "t", "e", "r", "C", "o", "d", "e", "R",
      "e", "f", "{", "$", "1", "}">>,
   EscapeSub |-> <<"{", "\\", "g", "l", "i", "t", "t", "e", "r", "H", "a", "s", "h",
      "}">>,
   InlineCode |-> <<"\\", "l", "s", "t", "i", "n", "l", "i", "n", "e", "@", "$", "1",
      "@">>,
   CodeSet |-> <<"\\", "g", "l", "i", "t", "t", "e", "r", "S", "e", "t", "{", "b",
      "l", "o", "c", "k", "t", "a", "b", "l", "e", "=", "$", "b",
      "l", "o", "c", "k", "t", "a", "b", "l", "e", ",", "b", "l",
      "o", "c", "k", "i", "d", "=", "$", "b", "l", "o", "c", "k",
      "i", "d", ",", "b", "l", "o", "c", "k", "s", "e", "r", "i",
      "e", "s", "=", "$", "b", "l", "o", "c", "k", "s", "e", "r",
      "i", "e", "s", "}">>,
   WeaveLineRef |-> <<"%", "%", "l", "i", "n", "e", " ", "$", "l", "i", "n", "e", "n",
      "o", " ", "\"", "$", "f", "i", "l", "e", "n", "a", "m", "e",
      "\"", "$", "n">>,
   TangleLineRef |-> <<"/", "*", "l", "i", "n", "e", " ", "$", "f", "i", "l", "e", "n",
      "a", "m", "e", ":", "$", "l", "i", "n", "e", "n", "o", "*", "/">>]

\* strings.Index(s, sub): the 0-based offset of the first sub in s, or -1.
Index(s, sub) ==
  LET at == {i \in 0..(Len(s) - Len(sub)) : SubSeq(s, i + 1, i + Len(sub)) = sub}
  IN  IF at = {} THEN -1 ELSE SetMin(at)

\* strings.Replace(s, old, new, 1) for a non-empty old.
ReplaceFirst(s, old, new) ==
  LET i == Index(s, old)
  IN  IF i < 0 THEN s ELSE Take(s, i) \o new \o Drop(s, i + Len(old))

\* strings.ReplaceAll(s, old, new): the matches of old from left to right,
\* not overlapping; an empty old matches before every code point and at the
\* end.
RECURSIVE ReplaceAll(_, _, _)
ReplaceAll(s, old, new) ==
  IF old = <<>>
  THEN IF s = <<>> THEN new
       ELSE new \o <<Head(s)>> \o
              (IF Len(s) = 1 THEN new ELSE ReplaceAll(Tail(s), old, new))
  ELSE LET i == Index(s, old)
       IN  IF i < 0 THEN s
           ELSE Take(s, i) \o new \o ReplaceAll(Drop(s, i + Len(old)), old, new)

\* Options.GetConfig(name) after ReadConfig: the entry that was read from the
\* configuration file, else the default, else "" (a key that is not in the
\* map).  ReadConfig has replaced the first $1 of StartCode by %s.
GetConfig(name) ==
  LET v == IF name \in DOMAIN Options.Config THEN Options.Config[name]
           ELSE IF name \in DOMAIN DefaultConfig THEN DefaultConfig[name]
           ELSE <<>>
  IN  IF name = "StartCode" THEN ReplaceFirst(v, <<"$", "1">>, <<"%", "s">>)
      ELSE v

\* No entry read from a configuration file.
NoConfig == [k \in {} |-> <<>>]

\* The Options after flag.Parse and ReadConfig: the command, the flag
\* -forbid-multiple-includes, the entries read from the configuration file.
OptionsOf(command, forbid, config) ==
  [Command |-> command, DisallowMultipleIncludes |-> forbid, Config |-> config]

\* isShellSpecialVar and isAlphaNum of package os.
isShellSpecialVar(c) ==
  c \in {"*", "#", "$", "@", "!", "?", "-"} \/ IsDigit(c)

isAlphaNum(c) ==
  c = "_" \/ IsDigit(c) \/ (LowerChar(c) # c /\ c \notin TwoByteChars)
    \/ c \in {"a", "b", "c", "d", "e", "f", "g", "h", "i", "j", "k", "l", "m",
              "n", "o", "p", "q", "r", "s", "t", "u", "v", "w", "x", "y", "z"}

\* The number of leading code points of s that are alphanumeric.
RECURSIVE LeadingAlphaNum(_)
LeadingAlphaNum(s) ==
  IF s # <<>> /\ isAlphaNum(Head(s)) THEN 1 + LeadingAlphaNum(Tail(s)) ELSE 0

\* getShellName of package os, on the text after a `$`: [name, w].
getShellName(s) ==
  IF Head(s) = "{"
  THEN IF Len(s) > 2 /\ isShellSpecialVar(s[2]) /\ s[3] = "}"
       THEN [name |-> <<s[2]>>, w |-> 3]
       ELSE LET close == {i \in 2..Len(s) : s[i] = "}"}
            IN  IF close = {} THEN [name |-> <<>>, w |-> 1]
                ELSE IF SetMin(close) = 2 THEN [name |-> <<>>, w |-> 2]
                ELSE [name |-> SubSeq(s, 2, SetMin(close) - 1),
                      w |-> SetMin(close)]
  ELSE IF isShellSpecialVar(Head(s)) THEN [name |-> <<Head(s)>>, w |-> 1]
  ELSE [name |-> Take(s, LeadingAlphaNum(s)), w |-> LeadingAlphaNum(s)]

\* The mapping functions given to os.Expand: the value of a name they know,
\* the name itself for any other (`default: return s`).
Mapping(m, name) == IF name \in DOMAIN m THEN m[name] ELSE name

\* os.Expand(s, mapping)
RECURSIVE Expand(_, _)
Expand(s, m) ==
  IF s = <<>> THEN <<>>
  ELSE IF Head(s) = "$" /\ Len(s) >= 2
       THEN LET g == getShellName(Tail(s))
            IN  (IF g.name = <<>> /\ g.w > 0 THEN <<>>
                 ELSE IF g.name = <<>> THEN <<"$">>
                 ELSE Mapping(m, g.name))
                  \o Expand(Drop(s, 1 + g.w), m)
       ELSE <<Head(s)>> \o Expand(Tail(s), m)

\* fmt.Sprintf(format, arg) for a string arg: the first %s is the arg; a
\* format without a verb has the arg appended as %!(EXTRA string=arg).
Sprintf(format, arg) ==
  IF Index(format, <<"%", "s">>) >= 0
  THEN ReplaceFirst(format, <<"%", "s">>, arg)
  ELSE format \o <<"%", "!", "(", "E", "X", "T", "R", "A", " ", "s", "t", "r", "i",
      "n", "g", "=">> \o arg \o <<")">>

\* lineCommand when Options.Command is "weave".
weaveLineCommand(pos) ==
  Expand(GetConfig("WeaveLineRef"),
         (<<"l", "i", "n", "e", "n", "o">> :> Itoa(pos.lineno))
           @@ (<<"f", "i", "l", "e", "n", "a", "m", "e">> :> pos.filename))

(***************************************************************************)
(* Weave: the rewriting of a line                                          *)
(***************************************************************************)

\* removeTextStart: textStartRegex  ^\s*@(:+)  taken off the line as it is.
removeTextStart(line) ==
  LET r == Drop(line, LeadingReSpaces(line))
  IN  IF Len(r) >= 2 /\ r[1] = "@" /\ r[2] = ":"
      THEN Drop(r, 1 + RunLen(Tail(r), ":"))
      ELSE line

\* codeRefRegex.FindAllStringSubmatch(line, -1): the names between the
\* brackets, from left to right.
RECURSIVE FindAllRefs(_)
FindAllRefs(line) ==
  LET m == codeRefRegex(line)
  IN  IF ~m.found THEN <<>> ELSE <<m.name>> \o FindAllRefs(m.after)

\* An escapeCodeEscapes that leaves the references as they are.
escapeCodeEscapesNowhere(line) == line

\* escapeCodeEscapes: in every reference, CodeEscape becomes EscapeSub.
RECURSIVE escapeCodeEscapes(_)
escapeCodeEscapes(line) ==
  LET m == codeRefRegex(line)
  IN  IF ~m.found THEN line
      ELSE m.before
             \o ReplaceAll(<<"<", "<">> \o m.name \o <<">", ">">>,
                           GetConfig("CodeEscape"), GetConfig("EscapeSub"))
             \o escapeCodeEscapes(m.after)

\* WeaveBlockInfo
WeaveBlockInfo(count, firstBlockNum, firstMention, referencedFrom) ==
  [count |-> count, firstBlockNum |-> firstBlockNum,
   firstMention |-> firstMention, referencedFrom |-> referencedFrom]

\* The closure that weaveCodeRefs gives to ReplaceAllStringFunc: what stands
\* for one reference with the name subs[1].
weaveCodeRef(name, replacement, seen) ==
  LET nn       == canonicalCodeName(name)
      blocknum == IF nn \in DOMAIN seen THEN seen[nn].firstBlockNum ELSE -1
  IN  Expand(replacement,
             (<<"b", "l", "o", "c", "k", "i", "d">> :>
                (IF blocknum < 0 THEN <<"?", "?">> ELSE Itoa(blocknum)))
               @@ (<<"n", "a", "m", "e">> :> name))

\* codeRefRegex.ReplaceAllStringFunc(line, ...)
RECURSIVE replaceCodeRefs(_, _, _)
replaceCodeRefs(line, replacement, seen) ==
  LET m == codeRefRegex(line)
  IN  IF ~m.found THEN line
      ELSE m.before \o weaveCodeRef(m.name, replacement, seen)
             \o replaceCodeRefs(m.after, replacement, seen)

\* weaveCodeRefs: [line, blocks].  The line in which the references are
\* looked for is the line after the escapes of a code line were rewritten.
weaveCodeRefs(line, st, callingBlockId, seen) ==
  LET esc  == GetConfig("CodeEscape")
      l1   == IF st = "InCode"
              THEN ReplaceAll(escapeCodeEscapes(line), esc,
                              esc \o GetConfig("EscapeSub") \o esc)
              ELSE line
      repl == IF st = "InCode" THEN esc \o GetConfig("CodeRef") \o esc
              ELSE GetConfig("CodeRef")
      refs == FindAllRefs(l1)
      refd == {canonicalCodeName(refs[i]) : i \in 1..Len(refs)}
  IN  [line   |-> replaceCodeRefs(l1, repl, seen),
       blocks |-> [n \in DOMAIN seen |->
                     IF callingBlockId >= 0 /\ n \in refd
                     THEN [seen[n] EXCEPT
                             !.referencedFrom = @ \cup {callingBlockId}]
                     ELSE seen[n]]]

\* A letter, digit or underscore, as the templates of package regexp take it.
isWordRune(c) == isAlphaNum(c) \/ c \in {"U+E9", "U+C9"}

RECURSIVE LeadingWordRunes(_)
LeadingWordRunes(s) ==
  IF s # <<>> /\ isWordRune(Head(s)) THEN 1 + LeadingWordRunes(Tail(s)) ELSE 0

\* extract of package regexp, on the template after a `$`: [ok, num, rest];
\* num is the number the name spells, -1 for any other name.
regexpExtract(str) ==
  LET brace == str # <<>> /\ Head(str) = "{"
      s     == IF brace THEN Tail(str) ELSE str
      i     == LeadingWordRunes(s)
      name  == Take(s, i)
      isNum == Atoi(name).ok /\ ~(name[1] = "0" /\ Len(name) > 1)
      fail  == [ok |-> FALSE, num |-> -1, rest |-> str]
  IN  IF i = 0 THEN fail
      ELSE IF brace /\ (i >= Len(s) \/ s[i + 1] # "}") THEN fail
      ELSE [ok |-> TRUE, num |-> IF isNum THEN Atoi(name).val ELSE -1,
            rest |-> Drop(s, IF brace THEN i + 1 ELSE i)]

\* Regexp.expand for a match of a regular expression with one group and no
\* named group: g0 is the match, g1 the group.
RECURSIVE regexpExpand(_, _, _)
regexpExpand(template, g0, g1) ==
  LET i == Index(template, <<"$">>)
      after == Drop(template, i + 1)
      x == regexpExtract(after)
  IN  IF i < 0 THEN template
      ELSE Take(template, i) \o
           (IF after # <<>> /\ Head(after) = "$"
            THEN <<"$">> \o regexpExpand(Tail(after), g0, g1)
            ELSE IF ~x.ok THEN <<"$">> \o regexpExpand(after, g0, g1)
            ELSE (IF x.num = 0 THEN g0 ELSE IF x.num = 1 THEN g1 ELSE <<>>)
                   \o regexpExpand(x.rest, g0, g1))

\* Where a `]]` that can close the `[[` at i stands.
InlineEnds(line, i) ==
  {j \in (i + 3)..(Len(line) - 1) : line[j] = "]" /\ line[j + 1] = "]"}

InlineStarts(line) ==
  {i \in 1..(Len(line) - 1) :
     line[i] = "[" /\ line[i + 1] = "[" /\ InlineEnds(line, i) # {}}

\* weaveInlineCode: inlineCodeRegex  \[\[(.+?)\]\]  replaced by the template
\* InlineCode everywhere.
RECURSIVE weaveInlineCode(_)
weaveInlineCode(line) ==
  IF InlineStarts(line) = {} THEN line
  ELSE LET i == SetMin(InlineStarts(line))
           j == SetMin(InlineEnds(line, i))
       IN  Take(line, i - 1)
             \o regexpExpand(GetConfig("InlineCode"), SubSeq(line, i, j + 1),
                             SubSeq(line, i + 2, j - 1))
             \o weaveInlineCode(Drop(line, j + 1))

\* The loop of registerBlockRefs over the names found: [seenBlocks, blockId].
RECURSIVE registerRefs(_, _, _, _)
registerRefs(seen, id, names, pos) ==
  IF names = <<>> THEN [seenBlocks |-> seen, blockId |-> id]
  ELSE LET name == canonicalCodeName(Head(names))
       IN  IF name \in DOMAIN seen
           THEN registerRefs(seen, id, Tail(names), pos)
           ELSE registerRefs(seen @@ (name :> WeaveBlockInfo(0, id + 1, pos, {})),
                             id + 1, Tail(names), pos)

\* registerBlockRefs
registerBlockRefs(seen, id, line, pos) ==
  registerRefs(seen, id, FindAllRefs(line), pos)

\* The closure processWeaveLine of Weave, with the state and currentBlockId
\* it finds when it is called: [line, seenBlocks, blockId].
processWeaveLine(line, pos, st, cbid, seen, id) ==
  LET r == registerBlockRefs(seen, id, line, pos)
      c == weaveCodeRefs(line, st, cbid, r.seenBlocks)
  IN  [line |-> replaceNoOpChars(weaveInlineCode(c.line)),
       seenBlocks |-> c.blocks, blockId |-> r.blockId]

NL == <<"\n">>

\* weaveEndBlock: [panic, out], out the strings written.  (The caller clears
\* important after a code block.)
weaveEndBlock(st, b) ==
  LET r == removeBlankLines(deindentBlock(b))
  IN  IF st = "InCode"
      THEN IF r.panic THEN [panic |-> TRUE, out |-> <<>>]
           ELSE [panic |-> FALSE,
                 out |-> [i \in 1..(2 * Len(r.lines)) |->
                            IF i % 2 = 1 THEN r.lines[(i + 1) \div 2].line ELSE NL]
                           \o <<GetConfig("EndCode")>>]
      ELSE IF st = "InText"
      THEN [panic |-> FALSE, out |-> <<GetConfig("EndText")>>]
      ELSE [panic |-> FALSE, out |-> <<>>]

\* writeCodeBlockOptions with every definition counted twice.
writeCodeBlockOptionsCountingTwice(blockName, imp, seen) ==
  LET name == canonicalCodeName(blockName)
      info == [seen[name] EXCEPT !.count = @ + 2]
  IN  IF name \notin DOMAIN seen
      THEN [missing |-> TRUE, seen |-> seen, out |-> <<>>]
      ELSE [missing |-> FALSE,
            seen |-> [seen EXCEPT ![name] = info],
            out |-> <<Expand(GetConfig("CodeSet"),
                       (<<"b", "l", "o", "c", "k", "t", "a", "b", "l", "e">> :>
                          (IF imp THEN <<"t", "r", "u", "e">>
                           ELSE <<"f", "a", "l", "s", "e">>))
                       @@ (<<"b", "l", "o", "c", "k", "i", "d">> :>
                             Itoa(info.firstBlockNum))
                       @@ (<<"b", "l", "o", "c", "k", "s", "e", "r", "i", "e", "s">> :>
                             Itoa(info.count - 1)))>>]

\* writeCodeBlockOptions: [missing, seen, out]
writeCodeBlockOptions(blockName, imp, seen) ==
  LET name == canonicalCodeName(blockName)
      info == [seen[name] EXCEPT !.count = @ + 1]
  IN  IF name \notin DOMAIN seen
      THEN [missing |-> TRUE, seen |-> seen, out |-> <<>>]
      ELSE [missing |-> FALSE,
            seen |-> [seen EXCEPT ![name] = info],
            out |-> <<Expand(GetConfig("CodeSet"),
                       (<<"b", "l", "o", "c", "k", "t", "a", "b", "l", "e">> :>
                          (IF imp THEN <<"t", "r", "u", "e">>
                           ELSE <<"f", "a", "l", "s", "e">>))
                       @@ (<<"b", "l", "o", "c", "k", "i", "d">> :>
                             Itoa(info.firstBlockNum))
                       @@ (<<"b", "l", "o", "c", "k", "s", "e", "r", "i", "e", "s">> :>
                             Itoa(info.count - 1)))>>]

\* lineHasGlitterProp: glitterRegex on the line as it is, the property among
\* the fields of the group.
RECURSIVE Fields(_)
Fields(s) ==
  LET t == Drop(s, LeadingSpaces(s))
      sp == {i \in 1..Len(t) : IsSpace(t[i])}
      k == IF sp = {} THEN Len(t) ELSE SetMin(sp) - 1
  IN  IF t = <<>> THEN {} ELSE {Take(t, k)} \cup Fields(Drop(t, k))

lineHasGlitterProp(line, property) ==
  LET u == Drop(line, LeadingReSpaces(line))
  IN  /\ HasPrefix(u, S_glitter)
      /\ (Len(u) = 8 \/ IsReSpace(u[9]))
      /\ property \in Fields(Drop(u, 8))

(***************************************************************************)
(* Weave: the consumer that writes the typesettable stream                 *)
(***************************************************************************)

\* The locals of Weave as one record.  err is "" while Weave runs, then
\* "ok", the scanner's error (open, read, depth), "missing" (internally
\* missing block) or "panic" (a run-time panic; the deferred Flush runs).
WeaveLocals ==
  [isHiding |-> isHiding, important |-> important, state |-> weaveState,
   currentFilename |-> weaveFilename, block |-> block,
   seenBlocks |-> seenBlocks, blockId |-> blockId,
   currentBlockId |-> currentBlockId, out |-> wout, err |-> werr]

\* Weave up to the loop: the template Start is written, the locals are as
\* they are declared.
WeaveBegin ==
  /\ isHiding = FALSE
  /\ important = FALSE
  /\ weaveState = "Start"
  /\ weaveFilename = <<>>
  /\ block = <<>>
  /\ seenBlocks = EmptyStore
  /\ blockId = 0
  /\ currentBlockId = -1
  /\ wout = <<GetConfig("Start"), NL>>
  /\ werr = ""

\* The same locals in a run that does not weave.
WeaveIdle ==
  /\ isHiding = FALSE
  /\ important = FALSE
  /\ weaveState = "Start"
  /\ weaveFilename = <<>>
  /\ block = <<>>
  /\ seenBlocks = EmptyStore
  /\ blockId = 0
  /\ currentBlockId = -1
  /\ wout = <<>>
  /\ werr = ""

\* The locals after a turn of the loop; an error or a panic ends Weave.
WeaveSets(L) ==
  /\ isHiding' = L.isHiding
  /\ important' = L.important
  /\ weaveState' = L.state
  /\ weaveFilename' = L.currentFilename
  /\ block' = L.block
  /\ seenBlocks' = L.seenBlocks
  /\ blockId' = L.blockId
  /\ currentBlockId' = L.currentBlockId
  /\ wout' = L.out
  /\ werr' = L.err
  /\ cpc' = IF L.err = "" THEN "wrecv" ELSE "done"

\* A checkFirstBlock that does not look at the state.
checkFirstBlockEveryBlock(st) == <<GetConfig("StartBook"), NL>>

\* The closure checkFirstBlock: what it writes.
checkFirstBlock(st) ==
  IF st = "Start" THEN <<GetConfig("StartBook"), NL>> ELSE <<>>

\* A case TextStartLine that marks the next code block whatever the
\* number of colons.
weaveTextStartAlwaysImportant(L, l, arg) ==
  LET e == weaveEndBlock(L.state, L.block)
      p == processWeaveLine(removeTextStart(l.line), l.pos, "InText", -1,
                            L.seenBlocks, L.blockId)
  IN  IF e.panic
      THEN [L EXCEPT !.out = @ \o checkFirstBlock(L.state), !.err = "panic"]
      ELSE [L EXCEPT
              !.out = @ \o checkFirstBlock(L.state) \o e.out
                        \o <<weaveLineCommand(l.pos), GetConfig("StartText"),
                             p.line, NL>>,
              !.currentBlockId = -1,
              !.state = "InText",
              !.seenBlocks = p.seenBlocks,
              !.blockId = p.blockId,
              !.important = TRUE]

\* case TextStartLine
weaveTextStart(L, l, arg) ==
  LET e == weaveEndBlock(L.state, L.block)
      p == processWeaveLine(removeTextStart(l.line), l.pos, "InText", -1,
                            L.seenBlocks, L.blockId)
  IN  IF e.panic
      THEN [L EXCEPT !.out = @ \o checkFirstBlock(L.state), !.err = "panic"]
      ELSE [L EXCEPT
              !.out = @ \o checkFirstBlock(L.state) \o e.out
                        \o <<weaveLineCommand(l.pos), GetConfig("StartText"),
                             p.line, NL>>,
              !.currentBlockId = -1,
              !.state = "InText",
              !.seenBlocks = p.seenBlocks,
              !.blockId = p.blockId,
              !.important = IF Len(arg) > 1 THEN TRUE
                            ELSE IF L.state = "InCode" THEN FALSE ELSE @]

\* case CodeStartLine.  stk is the scanner's stack when CurrentFilePos() is
\* called for the message "At code block": an empty stack is an index out
\* of range.
weaveCodeStart(L, l, arg, stk) ==
  LET e   == weaveEndBlock(L.state, L.block)
      imp == IF L.state = "InCode" THEN FALSE ELSE L.important
      r   == registerBlockRefs(L.seenBlocks, L.blockId, l.line, l.pos)
      cn  == canonicalCodeName(arg)
      o   == writeCodeBlockOptions(arg, imp, r.seenBlocks)
      L1  == [L EXCEPT
                !.out = @ \o checkFirstBlock(L.state) \o e.out,
                !.state = "InCode",
                !.important = imp,
                !.seenBlocks = r.seenBlocks,
                !.blockId = r.blockId,
                !.currentBlockId =
                   IF cn \in DOMAIN r.seenBlocks
                   THEN r.seenBlocks[cn].firstBlockNum ELSE @]
      L2  == [L1 EXCEPT
                !.seenBlocks = o.seen,
                !.out = @ \o o.out
                          \o <<NL, weaveLineCommand(l.pos),
                               Sprintf(GetConfig("StartCode"), arg), NL>>]
  IN  IF e.panic
      THEN [L EXCEPT !.out = @ \o checkFirstBlock(L.state), !.err = "panic"]
      ELSE IF o.missing THEN [L1 EXCEPT !.err = "missing"]
      ELSE IF stk = <<>> THEN [L2 EXCEPT !.err = "panic"]
      ELSE [L2 EXCEPT !.block = <<>>]

\* case GlitterLine
weaveGlitter(L, l) ==
  [L EXCEPT !.isHiding =
     IF lineHasGlitterProp(l.line, <<"s", "h", "o", "w">>) THEN FALSE
     ELSE IF lineHasGlitterProp(l.line, <<"h", "i", "d", "e">>) THEN TRUE
     ELSE @]

\* case OtherLine
weaveOther(L, l) ==
  LET p == processWeaveLine(l.line, l.pos, L.state, L.currentBlockId,
                            L.seenBlocks, L.blockId)
      L1 == [L EXCEPT !.seenBlocks = p.seenBlocks, !.blockId = p.blockId]
  IN  IF L.state = "Start"
      THEN [L EXCEPT !.out = @ \o <<replaceNoOpChars(l.line), NL>>]
      ELSE IF L.state = "InCode"
      THEN [L1 EXCEPT !.block = Append(@, [pos |-> l.pos, line |-> p.line])]
      ELSE [L1 EXCEPT !.out = @ \o <<p.line, NL>>]

\* The body of Weave's loop for the line l.
weaveLine(L, l, stk) ==
  LET L1 == IF l.pos.filename # L.currentFilename
            THEN [L EXCEPT !.currentFilename = l.pos.filename,
                           !.out = Append(@, weaveLineCommand(l.pos))]
            ELSE L
      t  == computeLineType(l.line)
  IN  IF t.type # "GlitterLine" /\ L1.isHiding THEN L1
      ELSE CASE t.type = "TextStartLine" -> weaveTextStart(L1, l, t.arg)
             [] t.type = "CodeStartLine" -> weaveCodeStart(L1, l, t.arg, stk)
             [] t.type = "GlitterLine"   -> weaveGlitter(L1, l)
             [] OTHER                    -> weaveOther(L1, l)

\* Weave after the loop: scanner.Err(), the last weaveEndBlock, EndBook.
weaveEnd(L, serr) ==
  LET e == weaveEndBlock(L.state, L.block)
  IN  IF serr # "nil" THEN [L EXCEPT !.err = serr]
      ELSE IF e.panic THEN [L EXCEPT !.err = "panic"]
      ELSE [L EXCEPT !.out = @ \o e.out \o <<NL, GetConfig("EndBook"), NL>>,
                     !.important = IF L.state = "InCode" THEN FALSE ELSE @,
                     !.err = "ok"]

\* `for l := range scanner.Lines()`: one line is handed over.
WeaveRecv ==
  /\ cpc = "wrecv"
  /\ SendDone
  /\ delivered' = Append(delivered, pend)
  /\ cpc' = "wline"
  /\ UNCHANGED <<cerr, tangleVars, weaveVars>>

\* The body of the loop.  scanner.CurrentFilePos() reads the stack of the
\* producer goroutine, which runs on without synchronisation.
WeaveLine ==
  /\ cpc = "wline"
  /\ WeaveSets(weaveLine(WeaveLocals, delivered[Len(delivered)], stack))
  /\ UNCHANGED <<Options, executorVars, files, scannerVars, delivered, cerr, tangleVars>>

\* The channel is closed: the loop ends and Weave returns.
WeaveEnd ==
  /\ cpc = "wrecv"
  /\ ppc = "closed"
  /\ cerr' = gerr
  /\ WeaveSets(weaveEnd(WeaveLocals, gerr))
  /\ UNCHANGED <<Options, executorVars, files, scannerVars, delivered, tangleVars>>

(***************************************************************************)
(* The scanner's inputs                                                    *)
(***************************************************************************)

\* The lines of a file at most, and the input files at most.
MaxFileLines == 2

SeqsUpTo(S, n) == UNION {[1..k -> S] : k \in 0..n}

FileA == <<"a">>
FileB == <<"b">>
FileM == <<"m">>

\* An include directive for the path.
IncludeLine(path) == S_include \o <<" ", "\"">> \o path \o <<"\"">>

\* The directives that hide lines from Weave.
HideLine == S_glitter \o <<" ", "h", "i", "d", "e">>
ShowLine == S_glitter \o <<" ", "s", "h", "o", "w">>

LineX == <<"x">>
LineY == <<" ", "y">>

\* File a holds text, includes of a (itself), of b by the path ./b, and of
\* m, which does not exist; file b holds text and includes of a.
ScanLinesA == {LineX, IncludeLine(FileA), IncludeLine(<<".", "/", "b">>),
               IncludeLine(FileM)}
ScanLinesB == {LineY, IncludeLine(FileA)}

ScanFileLists == {<<FileA>>, <<FileA, FileB>>, <<FileB, <<".", "/", "a">>, FileB>>,
                  <<FileM, FileA>>}

\* NewGlitterScanner(filenames), DisallowMultipleIncludes() or not, Lines().
ScannerInit(names, mode) ==
  /\ filenames = names
  /\ stack = <<>>
  /\ processedFiles = {}
  /\ disallowMultipleIncludes = mode
  /\ gerr = "nil"
  /\ ppc = "next"
  /\ fi = 1
  /\ callArg = <<>>
  /\ pend = NoLine
  /\ retErr = "nil"

InitScan ==
  /\ \E ca \in SeqsUpTo(ScanLinesA, MaxFileLines),
        cb \in SeqsUpTo(ScanLinesB, MaxFileLines),
        rb \in BOOLEAN :
       files = (FileA :> [lines |-> ca, readErr |-> FALSE])
                 @@ (FileB :> [lines |-> cb, readErr |-> rb])
  /\ \E names \in ScanFileLists, mode \in BOOLEAN : ScannerInit(names, mode)
  /\ Options = OptionsOf("", FALSE, NoConfig)
  /\ cpc = "recv"
  /\ delivered = <<>>
  /\ cerr = "nil"
  /\ TangleStart
  /\ WeaveIdle
  /\ ExecutorIdle

Producer == LinesNext \/ Open \/ ScanLine \/ Return \/ Close

NextScan == LinesNext \/ Open \/ ScanLine \/ Return \/ Close \/ Recv \/ ConsumerEnd

SpecScan == InitScan /\ [][NextScan]_vars

\* The inputs of the runs whose progress is checked: file a as above, file
\* b one line of text and possibly a failing read, the second input list
\* starting with the file that does not exist.
InitScanFair ==
  /\ \E ca \in SeqsUpTo(ScanLinesA, MaxFileLines), rb \in BOOLEAN :
       files = (FileA :> [lines |-> ca, readErr |-> FALSE])
                 @@ (FileB :> [lines |-> <<LineY>>, readErr |-> rb])
  /\ \E names \in {<<FileA, FileB>>, <<FileM, FileA>>}, mode \in BOOLEAN :
       ScannerInit(names, mode)
  /\ Options = OptionsOf("", FALSE, NoConfig)
  /\ cpc = "recv"
  /\ delivered = <<>>
  /\ cerr = "nil"
  /\ TangleStart
  /\ WeaveIdle
  /\ ExecutorIdle

\* The Go scheduler runs every goroutine that can take a step.
FairSpecScan ==
  InitScanFair /\ [][NextScan]_vars
    /\ WF_vars(Producer) /\ WF_vars(Recv \/ ConsumerEnd)

(***************************************************************************)
(* Properties of the scanner (SpecScan, FairSpecScan)                      *)
(***************************************************************************)

\* The depth-first textual expansion of the lines n.. of a file: every line
\* with the position it has in the file, every include directive replaced by
\* the expansion of the included file.  (The expansion is taken of include
\* structures that were read without error, which go no deeper than the
\* scanner allows.)
RECURSIVE TextualExpansion(_, _, _)
TextualExpansion(path, n, depth) ==
  IF depth > MAX_INCLUDE_DEPTH \/ path \notin DOMAIN files THEN <<>>
  ELSE IF n > Len(files[path].lines) THEN <<>>
  ELSE LET line == files[path].lines[n]
           inc  == matchInclude(line)
       IN  (IF inc.ok THEN TextualExpansion(Clean(inc.arg), 1, depth + 1)
            ELSE <<SourceLine(path, n, line)>>)
             \o TextualExpansion(path, n + 1, depth)

RECURSIVE ExpansionOfFiles(_)
ExpansionOfFiles(names) ==
  IF names = <<>> THEN <<>>
  ELSE TextualExpansion(Clean(Head(names)), 1, 1) \o ExpansionOfFiles(Tail(names))

\* C7: when the input files and their includes have been read without error
\* (in the default mode, in which a file may be read again), the stream that
\* Lines() delivered is exactly the depth-first textual expansion of the
\* input files: the files in list order, the lines of a file in line order,
\* every include directive replaced by the stream of the included file.
C7_StreamIsTextualExpansion ==
  (cpc = "done" /\ cerr = "nil" /\ ~disallowMultipleIncludes)
    => delivered = ExpansionOfFiles(filenames)

\* A run over two input files in which an included file's line was
\* delivered between the start of the including file and its second line.
C7_Witness ==
  /\ cpc = "done" /\ cerr = "nil" /\ ~disallowMultipleIncludes
  /\ Len(filenames) >= 2
  /\ \E i, j \in 1..Len(delivered) :
       /\ i < j
       /\ delivered[i].pos.filename = FileB
       /\ delivered[j].pos = [filename |-> FileA, lineno |-> 2]

\* C8: every SourceLine delivered carries the path of the file that holds
\* it and its 1-based line number in that file, so that the text delivered
\* is the text of that line of that file; include directives are counted
\* and never delivered, so the line after a directive has the directive's
\* number plus one.
C8_PositionsArePhysical ==
  \A i \in 1..Len(delivered) :
    LET d == delivered[i]
    IN  /\ d.pos.filename \in DOMAIN files
        /\ d.pos.lineno \in 1..Len(files[d.pos.filename].lines)
        /\ files[d.pos.filename].lines[d.pos.lineno] = d.line
        /\ ~matchInclude(d.line).ok

\* Line 2 of file a was delivered after a line of file b, which line 1 of
\* file a, an include directive, brought in.
C8_Witness ==
  /\ Len(files[FileA].lines) >= 2
  /\ matchInclude(files[FileA].lines[1]).ok
  /\ \E i, j \in 1..Len(delivered) :
       /\ i < j
       /\ delivered[i].pos.filename = FileB
       /\ delivered[j].pos = [filename |-> FileA, lineno |-> 2]

\* Some file is on the include stack twice: the chain of includes has led
\* back to a file that is being read.
CycleOnStack ==
  \E i, j \in 1..Len(stack) : i < j /\ stack[i].filename = stack[j].filename

\* The next line of the file on top of the stack is an include directive.
NextLineIsInclude ==
  /\ ppc = "scan"
  /\ CurrentFilePos.lineno < Len(files[CurrentFilePos.filename].lines)
  /\ matchInclude(files[CurrentFilePos.filename].lines[CurrentFilePos.lineno + 1]).ok

\* C9: the include stack never holds more than MAX_INCLUDE_DEPTH frames: no
\* file is opened from 20 open files, an include directive met there raises
\* the include-too-deep error and pushes nothing; and in the default mode,
\* once a chain of includes has led back to a file being read, that file
\* stays on the stack until this error is raised.
C9_IncludeDepthCapped ==
  /\ [](Len(stack) <= MAX_INCLUDE_DEPTH)
  /\ [](ppc = "open" => Len(stack) < MAX_INCLUDE_DEPTH)
  /\ [][(NextLineIsInclude /\ Len(stack) >= MAX_INCLUDE_DEPTH)
          => (retErr' = "depth" /\ ppc' = "ret" /\ Len(stack') = Len(stack))]_vars
  /\ [][(CycleOnStack /\ ~disallowMultipleIncludes)
          => (CycleOnStack' \/ retErr' = "depth")]_vars

\* An include directive was met with 20 files open, and refused.
C9_Witness ==
  /\ Len(stack) = MAX_INCLUDE_DEPTH
  /\ CycleOnStack
  /\ ppc = "ret"
  /\ retErr = "depth"

\* The failure the producer met, "nil" if none: the error on its way up the
\* calls of readGlitterSourceFile, then g.err.
FailureKind == IF retErr # "nil" THEN retErr ELSE gerr

\* The steps at which a failure arises.
OpenFails ==
  /\ ppc = "open"
  /\ ~AlreadyProcessed(Clean(callArg))
  /\ Clean(callArg) \notin DOMAIN files

ReadFails ==
  /\ ppc = "scan"
  /\ CurrentFilePos.lineno >= Len(files[CurrentFilePos.filename].lines)
  /\ files[CurrentFilePos.filename].readErr

DepthFails == NextLineIsInclude /\ Len(stack) >= MAX_INCLUDE_DEPTH

\* C10: a failure to open or to read a file, or an include too deep, is
\* recorded when it happens and never replaced; after it no line is
\* delivered; the channel is still closed; and the consumer that calls Err()
\* after the close obtains the failure, or nil if there was none.
C10_FailureEndsTheStream ==
  /\ [][/\ OpenFails => FailureKind' = "open"
        /\ ReadFails => FailureKind' = "read"
        /\ DepthFails => FailureKind' = "depth"
        /\ (FailureKind = "nil" /\ ~(OpenFails \/ ReadFails \/ DepthFails))
             => FailureKind' = "nil"
        /\ FailureKind # "nil"
             => (FailureKind' = FailureKind /\ delivered' = delivered)]_vars
  /\ (FailureKind # "nil") ~> (ppc = "closed")
  /\ [](cpc = "done" => cerr = FailureKind)

\* The consumer got lines, then the close, and Err() gave it a failure.
C10_Witness ==
  /\ cpc = "done"
  /\ cerr # "nil"
  /\ delivered # <<>>
  /\ ppc = "closed"

\* The expansion of the lines n.. of a file in which every path is expanded
\* where it is first mentioned and nowhere else: seen holds the cleaned
\* paths mentioned so far, and the result is the lines and the paths seen.
RECURSIVE ExpansionOnce(_, _, _)
ExpansionOnce(path, n, seen) ==
  IF n > Len(files[path].lines) THEN [out |-> <<>>, seen |-> seen]
  ELSE LET line  == files[path].lines[n]
           inc   == matchInclude(line)
           p     == Clean(inc.arg)
           first == IF ~inc.ok
                    THEN [out |-> <<SourceLine(path, n, line)>>, seen |-> seen]
                    ELSE IF p \in seen \/ p \notin DOMAIN files
                    THEN [out |-> <<>>, seen |-> seen]
                    ELSE ExpansionOnce(p, 1, seen \cup {p})
           rest  == ExpansionOnce(path, n + 1, first.seen)
       IN  [out |-> first.out \o rest.out, seen |-> rest.seen]

RECURSIVE OnceOfFiles(_, _)
OnceOfFiles(names, seen) ==
  IF names = <<>> THEN <<>>
  ELSE LET p == Clean(Head(names))
       IN  IF p \in seen \/ p \notin DOMAIN files
           THEN OnceOfFiles(Tail(names), seen)
           ELSE LET r == ExpansionOnce(p, 1, seen \cup {p})
                IN  r.out \o OnceOfFiles(Tail(names), r.seen)

\* The producer is about to open a path that it has opened before.
LaterMention ==
  /\ ppc = "open"
  /\ Clean(callArg) \in DOMAIN files
  /\ Clean(callArg) \in processedFiles

\* C11: in forbid-multiple-includes mode a later mention of a path that has
\* been opened, in the input list or in an include directive, of the file
\* being read included, pushes no file, delivers no line and raises no
\* error, so that no line is delivered twice and the stream is the expansion
\* in which every path is expanded at its first mention only; in the default
\* mode a later mention opens the file again at its first line, and the
\* stream holds its lines once more at that place.
C11_LaterMentionSkippedOrRepeated ==
  /\ [][(LaterMention /\ disallowMultipleIncludes)
          => (stack' = stack /\ FailureKind' = FailureKind
              /\ ppc' \in {"scan", "next"})]_vars
  /\ [](disallowMultipleIncludes =>
          \A i, j \in 1..Len(delivered) :
            delivered[i].pos = delivered[j].pos => i = j)
  /\ []((cpc = "done" /\ cerr = "nil" /\ disallowMultipleIncludes)
          => delivered = OnceOfFiles(filenames, {}))
  /\ [][(LaterMention /\ ~disallowMultipleIncludes)
          => stack' = Append(stack, [filename |-> Clean(callArg), lineno |-> 0])]_vars
  /\ []((cpc = "done" /\ cerr = "nil" /\ ~disallowMultipleIncludes)
          => delivered = ExpansionOfFiles(filenames))

\* A run in forbid-multiple-includes mode over b, ./a, b in which file a
\* includes itself: lines of b and of a were delivered, and the run ended
\* without error.
C11_Witness ==
  /\ cpc = "done" /\ cerr = "nil" /\ disallowMultipleIncludes
  /\ filenames = <<FileB, <<".", "/", "a">>, FileB>>
  /\ \E i \in 1..Len(files[FileA].lines) :
       files[FileA].lines[i] = IncludeLine(FileA)
  /\ \E i, j \in 1..Len(delivered) :
       /\ delivered[i].pos.filename = FileB
       /\ delivered[j].pos.filename = FileA

(***************************************************************************)
(* The inputs of Tangle                                                   *)
(***************************************************************************)

\* The lines of the input file a at most.
MaxRefLines == 3
MaxDefLines == 4
MaxTopLines == 4
\* and when file b is a second input file.
MaxTopLinesOfTwo == 2

\* `<<name>>=` and `<<name>>`
Def(name) == <<"<", "<">> \o name \o <<">", ">", "=">>
Ref(name) == <<"<", "<">> \o name \o <<">", ">">>

\* Inputs about references.  File a: the start of the main block, lines with
\* references (text before and after; a reference after one to the empty
\* fragment e; a fragment that file b may define) and the include of b.
RefLines ==
  {Def(<<"*">>),
   <<"U+E9">> \o Ref(<<"a">>) \o <<"q">>,
   Ref(<<"e">>) \o Ref(<<"a">>),
   Ref(<<"e">>) \o Ref(<<"u">>),
   Ref(<<"c">>),
   IncludeLine(FileB)}

\* File b: e is empty, c refers to a, a has two lines; or c refers to a
\* fragment nobody defines, to the main block, or to itself.
RefLibs ==
  {<<Def(<<"e">>), Def(<<"c">>), <<"z">> \o Ref(<<" ", "A">>),
     Def(<<"a">>), <<"x">>, <<" ", "y">>>>,
   <<Def(<<"c">>), Ref(<<"u">>)>>,
   <<Def(<<"c">>), Ref(<<"*">>)>>,
   <<Def(<<"c">>), <<"z">> \o Ref(<<"c">>)>>}

\* Inputs about a reference after a reference.  File a: the start of the
\* main block, a reference to the fragment a, which has lines, followed by
\* a reference to a fragment nobody defines or to the main block, and the
\* include of b; file b is the first of RefLibs.
MaxAfterLines == 3

AfterLines ==
  {Def(<<"*">>),
   Ref(<<"a">>) \o Ref(<<"u">>),
   <<"p">> \o Ref(<<"a">>) \o Ref(<<"*">>),
   IncludeLine(FileB)}

AfterLib ==
  <<Def(<<"e">>), Def(<<"c">>), <<"z">> \o Ref(<<" ", "A">>),
    Def(<<"a">>), <<"x">>, <<" ", "y">>>>

\* Inputs about definitions.  File a: two spellings of one name, indented
\* and blank lines, the include of b; file b defines the same name.
DefLines ==
  {Def(<<"a", " ", "b">>),
   Def(<<" ", "A", " ", "\t", "B", " ">>),
   <<" ", "x">>,
   <<>>,
   <<" ", " ", "y">>,
   IncludeLine(FileB)}

DefLib == <<Def(<<"a", " ", "b">>), <<"x">>>>

\* Inputs about top-level names.  File a: the forms of a top-level name, a
\* directive, a line of code; file b, when it is a second input file, adds
\* to the main block.
TopLines ==
  {Def(<<"*">>),
   Def(<<"*", " ", "\"", "o", "\"", " ", "1", "0">>),
   Def(<<"*", " ", "2">>),
   Def(<<"*", " ", "\"", "\"">>),
   S_glitter \o <<" ", "t", "o", "p">>,
   <<"x">>}

TopLib == <<Def(<<"*">>), <<"y">>>>

\* Inputs about what stops Tangle and what does not.  File a: top-level
\* names, one of them against the grammar, the directive hide, a line of
\* code; the second input file m does not exist.
MaxDirectiveLines == 3

DirectiveLines ==
  {Def(<<"*", " ", "\"", "o", "\"", " ", "1", "0">>),
   Def(<<"*">>),
   Def(<<"*", "z">>),
   HideLine,
   <<"x">>}

\* Inputs about indentation.  File a: one definition and under it blank
\* lines and lines indented by spaces and by the no-break space U+00A0.
MaxSpaceLines == 3

SpaceLines ==
  {<<>>,
   <<" ">>,
   <<" ", "x">>,
   <<" ", " ", "y">>,
   <<"U+A0", "z">>}

\* Inputs about names.  File a: one definition whose name is built from
\* letters of either case, the space, the tab and the no-op character `#`.
MaxNameLen == 3

NameChars == {"a", "A", " ", "\t", "#"}

Names == UNION {[1..k -> NameChars] : k \in 1..MaxNameLen}

\* The input of the scenario "hello world": the single file main.gw with a
\* text block, the block of out.txt and the fragment greeted.
MainGw == <<"m", "a", "i", "n", ".", "g", "w">>

HelloLines ==
  <<<<"@", ":", " ", "p", "r", "o", "s", "e">>,
    Def(<<"*", " ", "\"", "o", "u", "t", ".", "t", "x", "t", "\"", " ", "0">>),
    <<"h", "e", "l", "l", "o", " ">> \o Ref(<<"g", "r", "e", "e", "t", "e", "d">>),
    Def(<<"g", "r", "e", "e", "t", "e", "d">>),
    <<"w", "o", "r", "l", "d">>>>

\* Inputs about the no-op character.  File a: the main block and under it
\* lines with runs of `#` of the lengths 1, 2 and 3.
MaxHashLines == 2

HashLines ==
  {<<"#">>,
   <<"a", "#", "#", "b", "#">>,
   <<"#", "#", "#">>,
   <<"x">>,
   <<>>}

\* The scanner is as NewGlitterScanner(filenames) makes it: Tangle never
\* calls its DisallowMultipleIncludes.
TangleInput(a, b, names) ==
  /\ files = (FileA :> [lines |-> a, readErr |-> FALSE])
               @@ (FileB :> [lines |-> b, readErr |-> FALSE])
  /\ ScannerInit(names, FALSE)

\* Tangle(filenames) is called; the flag -forbid-multiple-includes is given
\* or not in the runs over the definitions, which can include b twice.
InitTangle ==
  /\ \/ /\ \E a \in SeqsUpTo(RefLines, MaxRefLines), b \in RefLibs :
             TangleInput(a, b, <<FileA>>)
        /\ Options = OptionsOf("tangle", FALSE, NoConfig)
     \/ /\ \E a \in SeqsUpTo(DefLines, MaxDefLines) :
             TangleInput(a, DefLib, <<FileA>>)
        /\ \E forbid \in BOOLEAN : Options = OptionsOf("tangle", forbid, NoConfig)
     \/ /\ \E a \in SeqsUpTo(TopLines, MaxTopLines) :
             TangleInput(a, TopLib, <<FileA>>)
        /\ Options = OptionsOf("tangle", FALSE, NoConfig)
     \/ /\ \E a \in SeqsUpTo(TopLines, MaxTopLinesOfTwo) :
             TangleInput(a, TopLib, <<FileA, FileB>>)
        /\ Options = OptionsOf("tangle", FALSE, NoConfig)
     \/ /\ \E a \in SeqsUpTo(DirectiveLines, MaxDirectiveLines) :
             TangleInput(a, TopLib, <<FileA>>)
        /\ Options = OptionsOf("tangle", FALSE, NoConfig)
     \/ /\ \E a \in SeqsUpTo(DirectiveLines, MaxTopLinesOfTwo) :
             TangleInput(a, TopLib, <<FileA, FileM>>)
        /\ Options = OptionsOf("tangle", FALSE, NoConfig)
     \/ /\ \E a \in SeqsUpTo(SpaceLines, MaxSpaceLines) :
             TangleInput(<<Def(<<"a", " ", "b">>)>> \o a, DefLib, <<FileA>>)
        /\ Options = OptionsOf("tangle", FALSE, NoConfig)
     \/ /\ \E a \in SeqsUpTo(AfterLines, MaxAfterLines) :
             TangleInput(a, AfterLib, <<FileA>>)
        /\ Options = OptionsOf("tangle", FALSE, NoConfig)
     \/ /\ \E name \in Names : TangleInput(<<Def(name)>>, DefLib, <<FileA>>)
        /\ Options = OptionsOf("tangle", FALSE, NoConfig)
     \/ /\ files = (MainGw :> [lines |-> HelloLines, readErr |-> FALSE])
                       @@ (FileA :> [lines |-> <<>>, readErr |-> FALSE])
                       @@ (FileB :> [lines |-> DefLib, readErr |-> FALSE])
        /\ ScannerInit(<<MainGw>>, FALSE)
        /\ Options = OptionsOf("tangle", FALSE, NoConfig)
     \/ /\ \E a \in SeqsUpTo(HashLines, MaxHashLines) :
             TangleInput(<<Def(<<"*">>)>> \o a, DefLib, <<FileA>>)
        /\ Options = OptionsOf("tangle", FALSE, NoConfig)
  /\ cpc = "trecv"
  /\ delivered = <<>>
  /\ cerr = "nil"
  /\ TangleStart
  /\ WeaveIdle
  /\ ExecutorIdle

NextTangle ==
  \/ LinesNext \/ Open \/ ScanLine \/ Return \/ Close
  \/ TangleRecv \/ TangleDepth \/ TangleLine \/ TangleEnd
  \/ TangleSort \/ TangleWrite

SpecTangle == InitTangle /\ [][NextTangle]_vars

(***************************************************************************)
(* Properties of the tangle read pass (SpecTangle)                         *)
(***************************************************************************)

\* The type of the i-th line of the stream.
LineType(i) == computeLineType(delivered[i].line).type

\* The raw name of the definition that the i-th line of the stream starts.
RawName(i) == computeLineType(delivered[i].line).arg

\* The stream positions of the lines that start a definition.
DefStarts == {i \in 1..Len(delivered) : LineType(i) = "CodeStartLine"}

\* The position after the last line of the definition that starts at i: the
\* next line that starts a text or a code block, or the end of the stream.
DefEnd(i) ==
  LET ends == {j \in (i + 1)..Len(delivered) :
                 LineType(j) \in {"TextStartLine", "CodeStartLine"}}
  IN  IF ends = {} THEN Len(delivered) + 1 ELSE SetMin(ends)

IsOtherLine(l) == computeLineType(l.line).type = "OtherLine"

\* The lines of the definition that starts at i, as they stand in the stream.
DefBody(i) == SelectSeq(SubSeq(delivered, i + 1, DefEnd(i) - 1), IsOtherLine)

\* The finalised text of a definition: deindented, then trimmed.
Finalised(body) == removeBlankLines(deindentBlock(body)).lines

\* The lines with the line pragma of the first line's position put before
\* the first line.
WithPragma(ls) ==
  IF ls = <<>> THEN ls
  ELSE [i \in 1..Len(ls) |->
          IF i = 1
          THEN [pos |-> ls[1].pos,
                line |-> <<"/", "*", "l", "i", "n", "e", " ">>
                           \o ls[1].pos.filename \o <<":">>
                           \o Itoa(ls[1].pos.lineno) \o <<"*", "/">> \o ls[1].line]
          ELSE ls[i]]

\* The concatenation of the first k logged definitions that went to name.
RECURSIVE ExpectedBlock(_, _)
ExpectedBlock(name, k) ==
  IF k = 0 THEN <<>>
  ELSE IF defLog[k].name # name THEN ExpectedBlock(name, k - 1)
  ELSE ExpectedBlock(name, k - 1)
         \o (IF \E j \in 1..(k - 1) : defLog[j].name = name
             THEN WithPragma(Finalised(DefBody(defLog[k].at)))
             ELSE Finalised(DefBody(defLog[k].at)))

\* A name with its outer white space removed, its inner runs of white space
\* made one space, and in lower case unless it starts with `*`.
NormalName(s) ==
  LET t == CollapseSpaces(TrimSpace(s))
  IN  IF t # <<>> /\ Head(t) = "*" THEN t ELSE ToLower(t)

\* Every space of s made a longer run of white space.
RECURSIVE Widen(_)
Widen(s) ==
  IF s = <<>> THEN <<>>
  ELSE IF Head(s) = " " THEN <<" ", "\t", " ">> \o Widen(Tail(s))
  ELSE <<Head(s)>> \o Widen(Tail(s))

\* Spellings that differ from s in outer white space, in the length of
\* inner runs of white space and, for a name without `*`, in letter case.
Spellings(s) ==
  {<<" ", "\t">> \o s, s \o <<" ">>, Widen(s)}
    \cup (IF HasPrefix(TrimSpace(s), <<"*">>) THEN {} ELSE {ToLower(s)})

\* C1: when the read pass has ended without error, the block store holds,
\* for every name the definitions of the stream were read under, the
\* finalised lines of those definitions concatenated in stream order, the
\* first line of each second or later definition prefixed by the line pragma
\* of its own position; definitions whose names differ only in outer white
\* space, in the length of inner runs of white space or (names without `*`)
\* in letter case were read under the same name, and every such spelling of
\* a name has the canonical name of that name.
C1_StoreConcatenatesDefinitions ==
  cpc = "sort" =>
    /\ {defLog[k].at : k \in 1..Len(defLog)} = DefStarts
    /\ \A j, k \in 1..Len(defLog) : j < k => defLog[j].at < defLog[k].at
    /\ DOMAIN blocks = {defLog[k].name : k \in 1..Len(defLog)}
    /\ \A n \in DOMAIN blocks : blocks[n] = ExpectedBlock(n, Len(defLog))
    /\ \A j, k \in 1..Len(defLog) :
         (/\ NormalName(RawName(defLog[j].at)) = NormalName(RawName(defLog[k].at))
          /\ ~HasPrefix(NormalName(RawName(defLog[j].at)), <<"*">>))
           => defLog[j].name = defLog[k].name
    /\ \A k \in 1..Len(defLog) :
         \A v \in Spellings(RawName(defLog[k].at)) :
           canonicalCodeName(v) = canonicalCodeName(RawName(defLog[k].at))

\* A fragment was defined twice under two spellings of its name; the store
\* holds the lines of both, the later ones after the pragma.
C1_Witness ==
  /\ cpc = "sort"
  /\ \E j, k \in 1..Len(defLog) :
       /\ j < k
       /\ defLog[j].name = defLog[k].name
       /\ RawName(defLog[j].at) # RawName(defLog[k].at)
       /\ Len(blocks[defLog[k].name]) >= 2
       /\ Finalised(DefBody(defLog[j].at)) # <<>>
       /\ Finalised(DefBody(defLog[k].at)) # <<>>
       /\ DefBody(defLog[k].at) # Finalised(DefBody(defLog[k].at))

(***************************************************************************)
(* Properties of the expansion (SpecTangle)                                *)
(***************************************************************************)

\* The canonical names of all the references on a line, from left to right.
RECURSIVE RefNames(_)
RefNames(line) ==
  LET m == codeRefRegex(line)
  IN  IF ~m.found THEN {}
      ELSE {canonicalCodeName(TrimSpace(m.name))} \cup RefNames(m.after)

\* The names that the lines of the stored block n refer to.
StoreRefs(n) == UNION {RefNames(blocks[n][i].line) : i \in 1..Len(blocks[n])}

\* The names reached from the names of S through the references of stored
\* blocks, in k steps at most.
RECURSIVE ReachIn(_, _)
ReachIn(S, k) ==
  IF k = 0 THEN S
  ELSE LET next == S \cup UNION {StoreRefs(n) : n \in S \cap DOMAIN blocks}
       IN  IF next = S THEN S ELSE ReachIn(next, k - 1)

\* The names a stored block refers to, directly or through other blocks.
Reaches(n) == ReachIn(StoreRefs(n), Cardinality(DOMAIN blocks) + 1)

\* Every reference of the input names a defined fragment that is not a
\* top-level block, and no fragment reaches itself.
AllRefsDefined ==
  \A n \in DOMAIN blocks :
    \A r \in StoreRefs(n) : r \in DOMAIN blocks /\ ~isTopLevelName(r)

NoRefCycle == \A n \in DOMAIN blocks : n \notin Reaches(n)

\* The read pass has ended without error and found top-level blocks.
ReadPassDone == cpc \in {"write", "done"} /\ topBlocks # <<>>

\* C2, as the spec states it: when Tangle succeeds on an input all of whose
\* references name defined fragments other than top-level blocks, and in
\* which no fragment reaches itself, no line written holds a reference.
C2_NoReferenceIsWritten ==
  (ReadPassDone /\ cpc = "done" /\ terr.kind = "ok"
     /\ AllRefsDefined /\ NoRefCycle)
    => \A i \in 1..Len(out) : out[i].op = "line" => ~HasRef(out[i].text)

\* The lines that the claim lets expandLine build for the first reference of
\* a line, from the lines of the referenced block.
BuiltLines(before, after, refd) ==
  [i \in 1..Len(refd) |->
     [pos |-> refd[i].pos,
      line |-> (IF i = 1
                THEN before \o <<"/", "*", "l", "i", "n", "e", " ">>
                       \o refd[1].pos.filename \o <<":">>
                       \o Itoa(refd[1].pos.lineno) \o <<"*", "/">>
                ELSE [j \in 1..Len(before) |-> " "])
               \o refd[i].line
               \o (IF i = Len(refd) THEN after ELSE <<>>)]]

\* A stored line whose first reference names a stored fragment, not a
\* top-level block, that has lines.
RefersToLines(l) ==
  LET m == codeRefRegex(l.line)
      n == canonicalCodeName(TrimSpace(m.name))
  IN  m.found /\ ~isTopLevelName(n) /\ n \in DOMAIN blocks /\ blocks[n] # <<>>

FirstRefBlock(l) ==
  blocks[canonicalCodeName(TrimSpace(codeRefRegex(l.line).name))]

\* C3: for a line whose first reference names a fragment with lines L1..Ln,
\* expandLine gives the expansion of these n lines in turn: before, the line
\* pragma of L1's position, L1; then for i > 1 as many spaces as before has
\* code points, Li; after appended to the last of them only.
C3_ExpandLineBuildsLines ==
  cpc = "write" =>
    \A n \in DOMAIN blocks : \A i \in 1..Len(blocks[n]) :
      LET l == blocks[n][i]
          m == codeRefRegex(l.line)
      IN  RefersToLines(l) =>
            /\ expandSubst(m.before, m.after, FirstRefBlock(l))
                 = BuiltLines(m.before, m.after, FirstRefBlock(l))
            /\ expandLine(blocks, l.line, l.pos, 0)
                 = expandLines(blocks,
                               BuiltLines(m.before, m.after, FirstRefBlock(l)),
                               <<>>, 1)

\* A line with a two-byte code point before and text after a reference to a
\* fragment of two lines was expanded and written.
C3_Witness ==
  /\ cpc = "done"
  /\ terr.kind = "ok"
  /\ \E n \in TopLevelNames(blocks) : \E i \in 1..Len(blocks[n]) :
       LET l == blocks[n][i]
           m == codeRefRegex(l.line)
       IN  /\ RefersToLines(l)
           /\ Len(FirstRefBlock(l)) >= 2
           /\ Bytes(m.before) > Len(m.before)
           /\ m.after # <<>>
           /\ \E j \in 1..Len(out) :
                out[j].op = "line" /\ HasPrefix(out[j].text, m.before \o <<"/", "*">>)

\* A reference that names no stored fragment, or a top-level block, stands
\* on a line of a top-level block or of a fragment reached from one.
BadRefReached ==
  \E t \in TopLevelNames(blocks) :
    \E n \in ({t} \cup Reaches(t)) \cap DOMAIN blocks :
      \E r \in StoreRefs(n) : r \notin DOMAIN blocks \/ isTopLevelName(r)

\* C6, as the spec states it: Tangle does not report success when a
\* top-level block holds, at any depth of nesting, a reference to a name
\* that is not in the block store or to a top-level block.
C6_BadReferenceIsAnError ==
  (ReadPassDone /\ cpc = "done" /\ BadRefReached) => terr.kind # "ok"

(***************************************************************************)
(* Properties of the output (SpecTangle)                                   *)
(***************************************************************************)

\* The file name and the order of the i-th top-level block written.
TopFile(i) == splitTopLevelName(topBlocks[i]).filename
TopOrder(i) == splitTopLevelName(topBlocks[i]).order

\* A file is created, or the blank line between two blocks is written.
IsBlockStart(e) == e.op = "create" \/ (e.op = "str" /\ e.text = <<"\n">>)

\* The indices in out of the events that start a block, in order.
BlockStarts == SelectSeq([i \in 1..Len(out) |-> i], LAMBDA i : IsBlockStart(out[i]))

\* The stream position of the first definition of the top-level block.
FirstDefAt(name) ==
  SetMin({defLog[k].at : k \in {j \in 1..Len(defLog) : defLog[j].name = name}})

\* C4: the top-level blocks are written in ascending order of (filename,
\* order), filenames compared byte by byte and orders as numbers; a block
\* starts with the creation of its file when it is the first block or its
\* filename differs from that of the block before, else with exactly one
\* blank line; and what follows this start is the block's own text, led by
\* the pragma of its first line.
C4_BlocksWrittenInOrder ==
  ReadPassDone =>
    /\ {topBlocks[i] : i \in 1..Len(topBlocks)} = TopLevelNames(blocks)
    /\ \A i, j \in 1..Len(topBlocks) :
         i < j => \/ CompareStr(TopFile(i), TopFile(j)) < 0
                  \/ TopFile(i) = TopFile(j) /\ TopOrder(i) < TopOrder(j)
    /\ Len(BlockStarts) <= Len(topBlocks)
    /\ (cpc = "done" /\ terr.kind = "ok") => Len(BlockStarts) = Len(topBlocks)
    /\ \A i \in 1..Len(BlockStarts) :
         LET p == BlockStarts[i]
             b == blocks[topBlocks[i]]
         IN  /\ out[p] = IF i = 1 \/ TopFile(i) # TopFile(i - 1)
                         THEN Event("create", TopFile(i), <<>>)
                         ELSE Event("str", TopFile(i), <<"\n">>)
             /\ b # <<>> =>
                  /\ p < Len(out)
                  /\ out[p + 1] = Event("str", TopFile(i), lineCommand(b[1].pos))

\* Two blocks of one file, the one of the lower order defined later, both
\* with text, were written, the blank line between them.
C4_Witness ==
  /\ cpc = "done"
  /\ terr.kind = "ok"
  /\ \E i \in 1..(Len(topBlocks) - 1) :
       /\ TopFile(i) = TopFile(i + 1)
       /\ FirstDefAt(topBlocks[i]) > FirstDefAt(topBlocks[i + 1])
       /\ TopOrder(i + 1) >= 10
       /\ blocks[topBlocks[i]] # <<>>
       /\ blocks[topBlocks[i + 1]] # <<>>
       /\ out[BlockStarts[i + 1]].op = "str"

(***************************************************************************)
(* Properties of the top-level names (SpecTangle)                          *)
(***************************************************************************)

\* A top-level name as it is written: `*`, then a file name in double quotes
\* or nothing, then an order in digits or nothing.
WrittenTopName(raw) ==
  LET r      == TrimSpace(Tail(TrimSpace(raw)))
      quoted == r # <<>> /\ Head(r) = "\""
      lastq  == CHOOSE i \in 1..Len(r) :
                  r[i] = "\"" /\ \A j \in (i + 1)..Len(r) : r[j] # "\""
      rest   == IF quoted THEN TrimSpace(Drop(r, lastq)) ELSE r
  IN  [hasFile |-> quoted,
       file    |-> IF quoted THEN SubSeq(r, 2, lastq - 1) ELSE <<>>,
       order   |-> IF rest = <<>> THEN 0 ELSE AtoiVal(rest)]

\* The name a top-level block of the file and the order is stored under.
StoredTopName(file, order) ==
  <<"*", " ", "\"">> \o file \o <<"\"", " ">> \o Itoa(order)

\* The loop body is about to take the line just received, which starts a
\* top-level block, and takes it without error.
TopLevelDefStep ==
  /\ cpc = "line"
  /\ LineType(Len(delivered)) = "CodeStartLine"
  /\ HasPrefix(TrimSpace(RawName(Len(delivered))), <<"*">>)
  /\ Len(defLog') = Len(defLog) + 1

\* The logged definitions of top-level blocks so far, and the directives of
\* the stream before the line just received.
TopDefsSoFar == {k \in 1..Len(defLog) : isTopLevelName(defLog[k].name)}
DirectivesSoFar == {i \in 1..(Len(delivered) - 1) : LineType(i) = "GlitterLine"}

SetMax(S) == CHOOSE x \in S : \A y \in S : y <= x

\* The file of the most recent top-level definition; <<>> if there is none.
LastTopDefFile ==
  IF TopDefsSoFar = {} THEN <<>>
  ELSE splitTopLevelName(defLog[SetMax(TopDefsSoFar)].name).filename

\* The current output file: that of the most recent top-level definition, or
\* the output name of the file of the most recent @glitter line if that line
\* came later; <<>> if there is neither.
StickyFile ==
  IF DirectivesSoFar # {}
     /\ (TopDefsSoFar = {}
           \/ defLog[SetMax(TopDefsSoFar)].at < SetMax(DirectivesSoFar))
  THEN createOutputFilename(delivered[SetMax(DirectivesSoFar)].pos.filename)
  ELSE LastTopDefFile

\* The file a top-level name resolves to, given the file that stands for an
\* omitted file name (<<>>: none, the default output file).
ResolvedFile(w, sticky) ==
  IF w.hasFile /\ w.file \notin {<<>>, <<".">>} THEN w.file
  ELSE IF w.hasFile \/ sticky = <<>> THEN defaultFilename
  ELSE sticky

C12_OptionForbidsRepeatedReading ==
  Options.DisallowMultipleIncludes =>
    \A i, j \in 1..Len(delivered) :
      delivered[i].pos = delivered[j].pos => i = j


(***************************************************************************)
(* The inputs of Weave                                                     *)
(***************************************************************************)

\* The lines of the input file a at most.
MaxWeaveLines == 4

\* The template of a reference as glittertex.cls has it, read from the
\* configuration file: the default CodeRef names no $blockid.
CodeRefConfig ==
  "CodeRef" :> <<"\\", "g", "l", "i", "t", "t", "e", "r", "C", "o", "d", "e", "R",
      "e", "f", "{", "$", "b", "l", "o", "c", "k", "i", "d", "}",
      "{", "$", "{", "n", "a", "m", "e", "}", "}">>

\* File a: the start of a text block with a reference, two definitions, a
\* line with two references (c is defined by file b only), the directives
\* hide and show, the include of b.
WeaveLines ==
  {<<"@", ":", " ", "t", " ">> \o Ref(<<"A">>),
   Def(<<"a">>),
   Def(<<"b">>),
   <<"x">> \o Ref(<<"b">>) \o Ref(<<"c">>),
   HideLine,
   ShowLine,
   IncludeLine(FileB)}

WeaveLib == <<Def(<<"c">>), <<"y">> \o Ref(<<"a">>)>>

\* File a, for the mark of an important code block: the start of a text
\* block with two colons and with one, two definitions, the directive hide.
MaxImportantLines == 4

ImportantLines ==
  {<<"@", ":", ":", " ", "s">>,
   <<"@", ":", " ", "t", " ">> \o Ref(<<"A">>),
   Def(<<"a">>),
   Def(<<"b">>),
   HideLine}

\* File a, for the escape character: the start of a text block and a line
\* with the escape character inside and outside a reference, two
\* definitions, a line with the escape character between two references.
\* These inputs are woven with a configuration file that sets no entry,
\* and with one that sets CodeRef.
MaxEscapeLines == 3

EscapeLines ==
  {<<"@", ":", " ", "p", "@", "<", "<", "a", "@", ">", ">">>,
   Def(<<"a">>),
   Def(<<"b">>),
   <<"x", "@", "<", "<", "a", "@", ">", ">", "y">>,
   <<"<", "<", "a", ">", ">", "@", "<", "<", "b", ">", ">">>}

\* Weave(filenames, out) is called with the configuration read.
InitWeave ==
  /\ \E config \in {CodeRefConfig, NoConfig} :
       /\ Options = OptionsOf("weave", FALSE, config)
       /\ \E a \in IF config = NoConfig
                    THEN SeqsUpTo(EscapeLines, MaxEscapeLines)
                    ELSE SeqsUpTo(WeaveLines, MaxWeaveLines)
                           \cup SeqsUpTo(ImportantLines, MaxImportantLines)
                           \cup SeqsUpTo(EscapeLines, MaxEscapeLines) :
            files = (FileA :> [lines |-> a, readErr |-> FALSE])
                      @@ (FileB :> [lines |-> WeaveLib, readErr |-> FALSE])
  /\ ScannerInit(<<FileA>>, FALSE)
  /\ cpc = "wrecv"
  /\ delivered = <<>>
  /\ cerr = "nil"
  /\ TangleStart
  /\ WeaveBegin
  /\ ExecutorIdle

NextWeave ==
  \/ LinesNext \/ Open \/ ScanLine \/ Return \/ Close
  \/ WeaveRecv \/ WeaveLine \/ WeaveEnd

SpecWeave == InitWeave /\ [][NextWeave]_vars


(***************************************************************************)
(* Properties of Weave (SpecWeave)                                         *)
(***************************************************************************)

\* The lines that the loop of Weave has gone through.
WeaveConsumed == IF cpc = "wline" THEN Len(delivered) - 1 ELSE Len(delivered)

\* Whether Weave is hiding after the first n lines of the stream.
RECURSIVE HidingAfter(_)
HidingAfter(n) ==
  IF n = 0 THEN FALSE
  ELSE IF delivered[n].line = ShowLine THEN FALSE
  ELSE IF delivered[n].line = HideLine THEN TRUE
  ELSE HidingAfter(n - 1)

\* Line i of the stream starts a block: any such line (all), or one that is
\* not hidden.
StartsBlock(i, all) ==
  /\ LineType(i) \in {"TextStartLine", "CodeStartLine"}
  /\ all \/ ~HidingAfter(i - 1)

\* Line i stands in a text block or in a code block, or starts one: it is
\* not in the preamble before the first block and, unless all lines are
\* taken, not hidden.
InBlock(i, all) ==
  /\ LineType(i) # "GlitterLine"
  /\ all \/ ~HidingAfter(i - 1)
  /\ \E k \in 1..i : StartsBlock(k, all)

\* The canonical names mentioned on line i, from left to right.
MentionsAt(i) ==
  LET names == FindAllRefs(delivered[i].line)
  IN  [k \in 1..Len(names) |-> canonicalCodeName(names[k])]

\* The names of s, each once, in the order of their first places.
RECURSIVE FirstPlaces(_)
FirstPlaces(s) ==
  IF s = <<>> THEN <<>>
  ELSE LET r == FirstPlaces(Take(s, Len(s) - 1))
       IN  IF \E k \in 1..Len(r) : r[k] = s[Len(s)] THEN r
           ELSE Append(r, s[Len(s)])

\* The names in the order of their first mention in the first n lines:
\* on the lines of all blocks, or of the blocks that are not hidden.
RECURSIVE MentionsUpTo(_, _)
MentionsUpTo(n, all) ==
  IF n = 0 THEN <<>>
  ELSE MentionsUpTo(n - 1, all)
         \o (IF InBlock(n, all) THEN MentionsAt(n) ELSE <<>>)

\* The CodeStart lines of the stream that have the canonical name.
DefinitionsOf(name, all) ==
  {i \in 1..Len(delivered) :
     /\ LineType(i) = "CodeStartLine"
     /\ canonicalCodeName(computeLineType(delivered[i].line).arg) = name
     /\ (all \/ ~HidingAfter(i - 1))}

\* The numbers 1, 2, 3, ... go to the names in the order of first mention.
NumberedByFirstMention(all) ==
  LET M == FirstPlaces(MentionsUpTo(WeaveConsumed, all))
  IN  /\ blockId = Len(M)
      /\ DOMAIN seenBlocks = {M[k] : k \in 1..Len(M)}
      /\ \A k \in 1..Len(M) : seenBlocks[M[k]].firstBlockNum = k

\* At the end of the input every name has its definitions counted.
DefinitionsCounted(all) ==
  werr = "ok" =>
    \A k \in 1..Len(FirstPlaces(MentionsUpTo(Len(delivered), all))) :
      LET name == FirstPlaces(MentionsUpTo(Len(delivered), all))[k]
      IN  /\ name \in DOMAIN seenBlocks
          /\ seenBlocks[name].count = Cardinality(DefinitionsOf(name, all))

\* C14 as the claim states it: the numbers 1, 2, 3, ... go to the canonical
\* names in the order of their first mention in the blocks of the input, and
\* at the end of the input the definition count of a name is the number of
\* CodeStart lines of the input that have this name.
C14_NumbersAndCountsOverTheInput ==
  NumberedByFirstMention(TRUE) /\ DefinitionsCounted(TRUE)

\* C14, amended: the numbers 1, 2, 3, ... go to the canonical names in the
\* order of their first mention on the lines of the blocks that Weave
\* weaves (lines that are not hidden and not before the first block), a
\* name keeps its number for the whole run, and at the end of the input the
\* definition count of a name is the number of CodeStart lines that are not
\* hidden and have this name.
C14_NumbersAndCountsOverWovenLines ==
  /\ [](NumberedByFirstMention(FALSE))
  /\ [][\A name \in DOMAIN seenBlocks :
          /\ name \in DOMAIN seenBlocks'
          /\ seenBlocks'[name].firstBlockNum = seenBlocks[name].firstBlockNum]_vars
  /\ [](DefinitionsCounted(FALSE))

\* A run to the end in which a is defined first, b after it, and a further
\* definition of b is hidden.
C14_Witness ==
  /\ werr = "ok"
  /\ files[FileA].lines = <<Def(<<"a">>), Def(<<"b">>), HideLine, Def(<<"b">>)>>
  /\ seenBlocks[<<"a">>].firstBlockNum = 1
  /\ seenBlocks[<<"b">>].firstBlockNum = 2
  /\ seenBlocks[<<"b">>].count = 1


\* The text of a reference to the name under CodeRefConfig, with the block
\* id.
CodeRefText(blockid, name) ==
  <<"\\", "g", "l", "i", "t", "t", "e", "r", "C", "o", "d", "e", "R",
      "e", "f", "{">> \o blockid \o <<"}", "{">> \o name \o <<"}">>

\* Some string that Weave wrote holds the text.
Written(text) == \E k \in 1..Len(wout) : Index(wout[k], text) >= 0

\* The references, as they are spelled, of the blocks that are not hidden
\* to names that no CodeStart line of the input has.
UndefinedRefs ==
  {name \in UNION {{FindAllRefs(delivered[i].line)[k] :
                      k \in 1..Len(FindAllRefs(delivered[i].line))} :
                   i \in {j \in 1..Len(delivered) : InBlock(j, FALSE)}} :
     DefinitionsOf(canonicalCodeName(name), TRUE) = {}}

\* C15: when the input refers to a fragment that no line of the input
\* defines, Weave completes without error and the CodeRef template written
\* for that reference has the block id `??`.
C15_UndefinedReferenceHasPlaceholder ==
  (cpc = "done" /\ gerr = "nil" /\ werr # "panic") =>
    /\ werr = "ok"
    /\ \A name \in UndefinedRefs : Written(CodeRefText(<<"?", "?">>, name))


\* C16: for a line between `@glitter hide` and the next `@glitter show`,
\* lines of files included in between included, Weave writes nothing and
\* leaves its block state and its fragment graph as they are.
C16_HiddenLinesAreIgnored ==
  [][(/\ cpc = "wline"
      /\ cpc' # "wline"
      /\ isHiding
      /\ LineType(Len(delivered)) # "GlitterLine")
       => /\ wout' = wout
          /\ weaveState' = weaveState
          /\ block' = block
          /\ important' = important
          /\ seenBlocks' = seenBlocks
          /\ blockId' = blockId
          /\ currentBlockId' = currentBlockId]_vars


(***************************************************************************)
(* Properties of the reads of the scanner's stack (SpecTangle)             *)
(***************************************************************************)

\* The depth of the stack when line i of the stream was sent: in the inputs
\* of SpecTangle a file is an input file or is included by one, never both.
DepthAtSend(i) ==
  IF \E k \in 1..Len(filenames) : filenames[k] = delivered[i].pos.filename
  THEN 1 ELSE 2

\* The default output file that the stream determines: after the first n
\* lines, and when the switch on line n is reached.
RECURSIVE DefaultAfter(_)
DefaultAtLine(n) ==
  IF /\ delivered[n].pos.filename # DefaultAfter(n - 1)
     /\ DepthAtSend(n) = 1
  THEN createOutputFilename(delivered[n].pos.filename)
  ELSE DefaultAfter(n - 1)

DefaultAfter(n) ==
  IF n = 0 THEN <<>>
  ELSE IF LineType(n) = "GlitterLine"
  THEN createOutputFilename(delivered[n].pos.filename)
  ELSE DefaultAtLine(n)

\* C13: for fixed input files and options a run of Tangle does not depend
\* on how the producer goroutine and the consuming loop interleave: the
\* default output file, which names the files written, is at every line the
\* one that the stream of lines determines, and whether the run ends in a
\* panic at the start of a block is determined by the blocks read so far.
C13_RunDoesNotDependOnInterleaving ==
  /\ [](cpc = "line" => defaultFilename = DefaultAtLine(Len(delivered)))
  /\ [][(/\ cpc = "line"
         /\ LineType(Len(delivered)) = "CodeStartLine"
         /\ ~finalizeCurrent.panic)
          => terr'.kind # "panic"]_vars


(***************************************************************************)
(* Properties of the output file names and of Tangle's errors (SpecTangle) *)
(***************************************************************************)

\* The file that a top-level name without a file name resolves to: the
\* current output file, or the default one while there is no current one.
OmittedFilename ==
  IF currentFilename = <<>> THEN defaultFilename ELSE currentFilename

\* C17: in tangle a `@glitter` line is never stored in a block, and a
\* `@glitter hide` or `@glitter show` line leaves the current and the
\* default output file and the block store as they are (only `@glitter
\* top` changes the file names); stated for the runs in which the read of
\* the scanner's depth gave the default output file that the stream
\* determines, and with the current output file taken as the file that a
\* name without a file name resolves to.
C17_HideAndShowChangeNothing ==
  /\ [](\A k \in DOMAIN blocks : \A i \in 1..Len(blocks[k]) :
          computeLineType(blocks[k][i].line).type # "GlitterLine")
  /\ [][(/\ cpc = "line"
         /\ delivered[Len(delivered)].line \in {HideLine, ShowLine}
         /\ defaultFilename = DefaultAtLine(Len(delivered)))
          => /\ OmittedFilename' = OmittedFilename
             /\ defaultFilename' = defaultFilename
             /\ blocks' = blocks
             /\ currentBlock' = currentBlock]_vars

\* Line n of the stream is the first line of an input file.
EntersInputFile(n) ==
  /\ DepthAtSend(n) = 1
  /\ \A k \in 1..(n - 1) : delivered[k].pos.filename # delivered[n].pos.filename

\* C18: when the stream moves on to the next input file, the current and
\* the default output file are reset to that file's output name, so that
\* `<<*>>=` in the new file goes to the new file's default output; stated
\* for the runs in which the read of the scanner's depth gave the default
\* output file that the stream determines.
C18_NewInputFileResetsOutputFiles ==
  (/\ cpc = "line"
   /\ EntersInputFile(Len(delivered))
   /\ defaultFilename = DefaultAtLine(Len(delivered)))
    => /\ defaultFilename = createOutputFilename(delivered[Len(delivered)].pos.filename)
       /\ OmittedFilename = defaultFilename


\* The read pass has gone through a top-level name that is against the
\* grammar.
BadTopLevelNameRead ==
  \E i \in 1..(IF cpc \in {"depth", "line"} THEN Len(delivered) - 1
               ELSE Len(delivered)) :
    /\ LineType(i) = "CodeStartLine"
    /\ isTopLevelName(canonicalCodeName(computeLineType(delivered[i].line).arg))
    /\ ~topLevelRegex(canonicalCodeName(computeLineType(delivered[i].line).arg)).ok

IsBlankLine(l) == \A k \in 1..Len(l.line) : IsSpace(l.line[k])

\* C20: for every block with a non-blank line, removeBlankLines applied to
\* deindentBlock gives the lines from the first to the last non-blank line,
\* some non-blank line of it has no leading white space, every non-blank
\* line has lost the same number N of leading white-space code points, N
\* being the least length of the white-space prefix of a non-blank line,
\* and the blank lines in between stay in place.
C20_FinalisedBlockIsTrimmedAndDeindented ==
  \A i \in DefStarts :
    LET body == DefBody(i)
        nb   == {k \in 1..Len(body) : ~IsBlankLine(body[k])}
    IN  nb # {} =>
          LET f == SetMin(nb)
              l == CHOOSE x \in nb : \A y \in nb : y <= x
              N == SetMin({LeadingSpaces(body[k].line) : k \in nb})
              r == Finalised(body)
          IN  /\ Len(r) = l - f + 1
              /\ ~IsBlankLine(r[1])
              /\ ~IsBlankLine(r[Len(r)])
              /\ \E k \in 1..Len(r) :
                   ~IsBlankLine(r[k]) /\ ~IsSpace(r[k].line[1])
              /\ \A k \in f..l :
                   /\ r[k - f + 1].pos = body[k].pos
                   /\ IF k \in nb
                      THEN r[k - f + 1].line = Drop(body[k].line, N)
                      ELSE IsBlankLine(r[k - f + 1])


(***************************************************************************)
(* Properties of names and of the escape pass (SpecTangle)                 *)
(***************************************************************************)

\* The name that the CodeStart line i of the stream gives.
NameAt(i) == computeLineType(delivered[i].line).arg

\* C21: canonicalCodeName is idempotent: for every name of a definition,
\* built from letters of either case, white space, `*` and `#`, the
\* canonical name of the canonical name is the canonical name.
C21_CanonicalNameIsIdempotent ==
  \A i \in DefStarts :
    canonicalCodeName(canonicalCodeName(NameAt(i))) = canonicalCodeName(NameAt(i))


\* The text s without the first `#` of every maximal run of `#`, from the
\* place i on.
RECURSIVE ShortenRunsFrom(_, _)
ShortenRunsFrom(s, i) ==
  IF i > Len(s) THEN <<>>
  ELSE (IF s[i] = "#" /\ (i = 1 \/ s[i - 1] # "#") THEN <<>> ELSE <<s[i]>>)
         \o ShortenRunsFrom(s, i + 1)

ShortenRuns(s) == ShortenRunsFrom(s, 1)

\* The texts of the lines that Tangle has written.
RECURSIVE LinesWritten(_)
LinesWritten(log) ==
  IF log = <<>> THEN <<>>
  ELSE (IF Head(log).op = "line" THEN <<Head(log).text>> ELSE <<>>)
         \o LinesWritten(Tail(log))

\* The input is one top-level definition without references.
OnePlainBlock ==
  /\ Len(delivered) >= 1
  /\ DefStarts = {1}
  /\ isTopLevelName(canonicalCodeName(NameAt(1)))
  /\ \A i \in 1..Len(delivered) : LineType(i) \in {"CodeStartLine", "OtherLine"}
  /\ \A i \in 2..Len(delivered) : ~HasRef(delivered[i].line)

C23_UnknownVariableStaysAsWritten ==
  Len(wout) >= 3 =>
    wout[3] = <<"%", "%", "l", "i", "n", "e", " ">> \o Itoa(delivered[1].pos.lineno) \o <<" ", "\"">>
                \o delivered[1].pos.filename \o <<"\"", "$", "n">>


(***************************************************************************)
(* Properties of the files that Tangle writes (SpecTangle)                 *)
(***************************************************************************)

\* The files that Tangle has created.
FilesCreated(log) == {log[k].file : k \in {i \in 1..Len(log) : log[i].op = "create"}}

\* The content of the file f after the log: os.Create empties the file,
\* WriteString adds the text, a line is the text and a newline.
RECURSIVE FileContent(_, _)
FileContent(log, f) ==
  IF log = <<>> THEN <<>>
  ELSE LET e    == log[Len(log)]
           rest == FileContent(Take(log, Len(log) - 1), f)
       IN  IF e.file # f THEN rest
           ELSE CASE e.op = "create" -> <<>>
                  [] e.op = "str"    -> rest \o e.text
                  [] e.op = "line"   -> rest \o e.text \o <<"\n">>
                  [] OTHER           -> rest

OutTxt == <<"o", "u", "t", ".", "t", "x", "t">>

\* Tangle has gone through the input of the scenario.
HelloTangled == cpc = "done" /\ filenames = <<MainGw>>

\* C24 as the claim states it: tangling main.gw creates out.txt with the
\* content `hello world` and one newline.
C24_OutTxtIsHelloWorld ==
  HelloTangled =>
    /\ terr.kind = "ok"
    /\ FilesCreated(out) = {OutTxt}
    /\ FileContent(out, OutTxt) = <<"h", "e", "l", "l", "o", " ", "w", "o", "r", "l", "d">> \o <<"\n">>

\* C24, amended: tangling main.gw creates out.txt, and nothing else, with
\* the content `/*line main.gw:3*/hello /*line main.gw:5*/world` and one
\* newline: the line pragma of the block's first line, and the line pragma
\* of the fragment's first line where the reference stood.
C24_OutTxtIsHelloWorldWithPragmas ==
  HelloTangled =>
    /\ terr.kind = "ok"
    /\ FilesCreated(out) = {OutTxt}
    /\ FileContent(out, OutTxt)
         = <<"/", "*", "l", "i", "n", "e", " ", "m", "a", "i", "n", ".", "g",
      "w", ":", "3", "*", "/", "h", "e", "l", "l", "o", " ", "/",
      "*", "l", "i", "n", "e", " ", "m", "a", "i", "n", ".", "g",
      "w", ":", "5", "*", "/", "w", "o", "r", "l", "d">> \o <<"\n">>

\* The run over main.gw has ended and has closed out.txt.
C24_Witness ==
  /\ HelloTangled
  /\ Len(delivered) = 5
  /\ Len(out) >= 1
  /\ out[Len(out)] = Event("close", OutTxt, <<>>)


(***************************************************************************)
(* Properties of each read of the scanner's stack (SpecTangle)             *)
(***************************************************************************)

\* C25: whenever tangleReadBlocks evaluates scanner.Depth() for the line it
\* has received (the test short-circuits: Depth() is evaluated when the
\* file name of the line is not the default output file's source), the
\* value is the include depth of the file that holds the line, however the
\* producer goroutine has gone on since it sent the line.
C25_DepthIsTheDepthOfTheLine ==
  [][(/\ cpc = "depth"
      /\ cpc' = "line"
      /\ delivered[Len(delivered)].pos.filename # defaultFilename)
       => Depth = DepthAtSend(Len(delivered))]_vars

\* The switch has reached a CodeStart line and finalizeBlock has returned:
\* scanner.CurrentFilePos() is called next, for the error of a bad
\* top-level name or for the message "At code block".
CallsCurrentFilePos ==
  /\ cpc = "line"
  /\ LineType(Len(delivered)) = "CodeStartLine"
  /\ ~finalizeCurrent.panic

\* C26: whenever tangleReadBlocks calls scanner.CurrentFilePos(), at a
\* CodeStart line, the stack is not empty and its top frame is the frame of
\* the file of the line being processed, however the producer goroutine
\* has gone on since it sent the line.
C26_CurrentFilePosIsTheLinesFile ==
  CallsCurrentFilePos =>
    /\ stack # <<>>
    /\ CurrentFilePos.filename = delivered[Len(delivered)].pos.filename


(***************************************************************************)
(* Properties of blocks without lines (SpecTangle)                         *)
(***************************************************************************)

\* C27: the finalisation of a code block all of whose lines are blank, any
\* number of them, completes and gives the block without lines.
C27_BlankBlockIsFinalisedEmpty ==
  (/\ ~currentBlock.nil
   /\ \A k \in 1..Len(currentBlock.lines) : IsBlankLine(currentBlock.lines[k]))
    => LET r == removeBlankLines(deindentBlock(currentBlock.lines))
       IN  ~r.panic /\ r.lines = <<>>

\* A stored line whose first reference names a stored fragment, not a
\* top-level block, that has no lines.
RefersToEmpty(l) ==
  LET m == codeRefRegex(l.line)
      n == canonicalCodeName(TrimSpace(m.name))
  IN  m.found /\ ~isTopLevelName(n) /\ n \in DOMAIN blocks /\ blocks[n] = <<>>

\* C28: for a line whose first reference names a defined fragment without
\* lines, expandLine gives what the expansion of before, one space and
\* after gives: the lines with every reference of after expanded, or the
\* error of a reference of after.
C28_EmptyReferenceLineIsExpandedAgain ==
  cpc = "write" =>
    \A n \in DOMAIN blocks : \A i \in 1..Len(blocks[n]) :
      LET l == blocks[n][i]
          m == codeRefRegex(l.line)
      IN  RefersToEmpty(l) =>
            expandLine(blocks, l.line, l.pos, 0)
              = expandLine(blocks, m.before \o <<" ">> \o m.after, l.pos, 1)


(***************************************************************************)
(* Properties of the structure of the woven stream (SpecWeave)             *)
(***************************************************************************)

\* The StartCode template as Weave writes it for some CodeStart line read.
IsStartCode(s) ==
  \E i \in DefStarts :
    s = Sprintf(GetConfig("StartCode"), computeLineType(delivered[i].line).arg)

\* The structural template that a string written is, "" for any other
\* string (a line of the input, a line pragma, a CodeSet, a newline).
TemplateOf(s) ==
  CASE s = GetConfig("Start")     -> "Start"
    [] s = GetConfig("StartBook") -> "StartBook"
    [] s = GetConfig("EndBook")   -> "EndBook"
    [] s = GetConfig("StartText") -> "StartText"
    [] s = GetConfig("EndText")   -> "EndText"
    [] s = GetConfig("EndCode")   -> "EndCode"
    [] IsStartCode(s)             -> "StartCode"
    [] OTHER                      -> ""

\* The structural templates written, in order.
Structure(w) ==
  LET t == [k \in 1..Len(w) |-> TemplateOf(w[k])]
  IN  SelectSeq(t, LAMBDA x : x # "")

Closes(open) == IF open = "StartText" THEN "EndText" ELSE "EndCode"

\* Start; then nothing, or StartBook and blocks, each opened and closed
\* before the next; then EndBook.
WellFormed(t) ==
  /\ Len(t) >= 2
  /\ t[1] = "Start"
  /\ t[Len(t)] = "EndBook"
  /\ Len(t) > 2 =>
       /\ t[2] = "StartBook"
       /\ Len(t) >= 5
       /\ Len(t) % 2 = 1
       /\ \A j \in 1..((Len(t) - 3) \div 2) :
            /\ t[2 * j + 1] \in {"StartText", "StartCode"}
            /\ t[2 * j + 2] = Closes(t[2 * j + 1])

\* The strings that the step has written.
NewlyWritten == SubSeq(wout', Len(wout) + 1, Len(wout'))

\* The step closes a code block: it writes EndCode.
ClosesCodeBlock ==
  /\ werr' \in {"", "ok"}
  /\ \E k \in 1..Len(NewlyWritten) : NewlyWritten[k] = GetConfig("EndCode")

\* C29: when Weave has ended without error, the structural templates it
\* has written are Start, then StartBook once if a block was woven, then
\* the blocks, each opened by StartText or StartCode and closed by the
\* matching EndText or EndCode before the next one opens, then EndBook
\* once and last; and the step that closes a code block writes the lines
\* buffered for it, each with a newline, right before EndCode, StartCode
\* being the last structural template written before.
C29_WovenStreamIsWellFormed ==
  /\ [](werr = "ok" => WellFormed(Structure(wout)))
  /\ [][ClosesCodeBlock =>
          LET F == removeBlankLines(deindentBlock(block)).lines
              n == NewlyWritten
              k == SetMin({j \in 1..Len(n) : n[j] = GetConfig("EndCode")})
              t == Structure(wout)
          IN  /\ t[Len(t)] = "StartCode"
              /\ k > 2 * Len(F)
              /\ \A i \in 1..Len(F) :
                   /\ n[k - 2 * Len(F) + 2 * i - 2] = F[i].line
                   /\ n[k - 2 * Len(F) + 2 * i - 1] = NL]_vars

\* A run has ended without error after a text block and a code block with
\* a line, the line written between StartCode and EndCode.
C29_Witness ==
  /\ werr = "ok"
  /\ Structure(wout) = <<"Start", "StartBook", "StartText", "EndText",
                         "StartCode", "EndCode", "EndBook">>
  /\ Len(delivered) = 4
  /\ LineType(3) = "CodeStartLine"
  /\ LineType(4) = "OtherLine"
  /\ \E k \in 3..Len(wout) :
       /\ wout[k] = GetConfig("EndCode")
       /\ wout[k - 1] = NL
       /\ Index(wout[k - 2], <<"x">>) = 0


(***************************************************************************)
(* Properties of the mark of an important code block (SpecWeave)           *)
(***************************************************************************)

\* Line i of the stream is woven as the start of a text block with two or
\* more colons, or as the start of a code block.
TwoColonsAt(i) ==
  /\ LineType(i) = "TextStartLine"
  /\ Len(computeLineType(delivered[i].line).arg) > 1
  /\ ~HidingAfter(i - 1)

CodeStartAt(i) == LineType(i) = "CodeStartLine" /\ ~HidingAfter(i - 1)

\* Before line n a text block with two or more colons was started, and no
\* code block has been started, hence none finalised, since.
MarkedImportant(n) ==
  \E j \in 1..(n - 1) :
    /\ TwoColonsAt(j)
    /\ \A k \in (j + 1)..(n - 1) : ~CodeStartAt(k)

\* The CodeSet templates among the strings that the step has written.
CodeSetsWritten ==
  {k \in 1..Len(NewlyWritten) : HasPrefix(NewlyWritten[k], <<"\\", "g", "l", "i", "t", "t", "e", "r", "S", "e", "t", "{">>)}

\* The text of a CodeSet template written with blocktable true, and false.
BlockTableTrue ==
  <<"b", "l", "o", "c", "k", "t", "a", "b", "l", "e", "=", "t", "r",
      "u", "e", ",">>

BlockTableFalse ==
  <<"b", "l", "o", "c", "k", "t", "a", "b", "l", "e", "=", "f", "a",
      "l", "s", "e", ",">>

\* C30: the step that weaves a CodeStart line writes one CodeSet template,
\* with blocktable=true when a TextStart line with two or more colons has
\* been woven since the last code block before it was finalised, or since
\* the start of the run, and with blocktable=false otherwise; and the step
\* that finalises a code block leaves the flag cleared, unless the line
\* that ends the block is itself a TextStart line with two or more colons.
C30_BlockTableMarksTheNextCodeBlock ==
  /\ [][(/\ cpc = "wline"
         /\ cpc' # "wline"
         /\ CodeStartAt(Len(delivered))
         /\ werr' \in {"", "ok"})
          => /\ Cardinality(CodeSetsWritten) = 1
             /\ \A k \in CodeSetsWritten :
                  /\ Index(NewlyWritten[k],
                           IF MarkedImportant(Len(delivered))
                           THEN BlockTableTrue
                           ELSE BlockTableFalse) >= 0]_vars
  /\ [][ClosesCodeBlock
          => important' = (cpc = "wline" /\ TwoColonsAt(Len(delivered)))]_vars

\* A run has ended without error after a text block with two colons, a
\* text block with one, and two code blocks: the first is marked, the
\* second is not.
C30_Witness ==
  /\ werr = "ok"
  /\ Len(delivered) = 4
  /\ TwoColonsAt(1)
  /\ LineType(2) = "TextStartLine"
  /\ ~TwoColonsAt(2)
  /\ CodeStartAt(3)
  /\ CodeStartAt(4)
  /\ Written(BlockTableTrue)
  /\ Written(BlockTableFalse)


(***************************************************************************)
(* Properties of the referenced-from sets (SpecWeave)                      *)
(***************************************************************************)

\* The line that started the block in which line i is woven, 0 in the
\* preamble.
RECURSIVE BlockStartOf(_)
BlockStartOf(i) ==
  IF i = 0 THEN 0
  ELSE IF StartsBlock(i, FALSE) THEN i
  ELSE BlockStartOf(i - 1)

\* Line i is woven as a line of a code block: not a start of a block, not
\* a directive, not hidden.
CodeLineAt(i) ==
  /\ LineType(i) = "OtherLine"
  /\ ~HidingAfter(i - 1)
  /\ BlockStartOf(i) > 0
  /\ LineType(BlockStartOf(i)) = "CodeStartLine"

\* The canonical names of the references of line i, as they are written.
NamesReferredAt(i) ==
  {canonicalCodeName(FindAllRefs(delivered[i].line)[k]) :
     k \in 1..Len(FindAllRefs(delivered[i].line))}

\* The number of the code block in which the code line i stands.
EnclosingBlockNumber(i) ==
  seenBlocks[canonicalCodeName(
               computeLineType(delivered[BlockStartOf(i)].line).arg)].firstBlockNum

\* The numbers of the code blocks whose lines, among the first n lines,
\* refer to the name.
ReferrersOf(name, n) ==
  {EnclosingBlockNumber(i) :
     i \in {j \in 1..n : CodeLineAt(j) /\ name \in NamesReferredAt(j)}}

\* C31: while Weave runs, and when it has ended without error, the
\* referenced-from set of every name holds exactly the numbers of the code
\* blocks that have a woven line with a reference to the name: the lines
\* of text blocks and the definition lines add nothing; and no step takes a
\* number out of a set.
C31_ReferencedFromIsTheEnclosingBlocks ==
  /\ [](werr \in {"", "ok"} =>
          \A name \in DOMAIN seenBlocks :
            seenBlocks[name].referencedFrom = ReferrersOf(name, WeaveConsumed))
  /\ [][\A name \in DOMAIN seenBlocks :
          /\ name \in DOMAIN seenBlocks'
          /\ seenBlocks[name].referencedFrom
               \subseteq seenBlocks'[name].referencedFrom]_vars


(***************************************************************************)
(* Properties of the line pragmas of Weave (SpecWeave)                     *)
(***************************************************************************)

\* Line n of the stream is the first line, or comes from another file than
\* line n - 1.
FileChangesAt(n) ==
  n = 1 \/ delivered[n].pos.filename # delivered[n - 1].pos.filename

\* The lines of earlier turns of the loop whose output Weave has still to
\* write: the lines buffered for the code block that is open, less the
\* blank lines and the indentation that weaveEndBlock removes.
PendingOutput ==
  IF weaveState = "InCode" /\ ~removeBlankLines(deindentBlock(block)).panic
  THEN removeBlankLines(deindentBlock(block)).lines
  ELSE <<>>

\* C32: the turn of the loop for a line that comes from another file than
\* the line before it, or for the first line, writes the WeaveLineRef
\* pragma of the line's position before anything else, and at that moment
\* the output of every earlier line has been written: no line of an open
\* code block is still buffered, to be written after the pragma.
C32_PragmaStandsBetweenTheLines ==
  [][(/\ cpc = "wline"
      /\ cpc' # "wline"
      /\ FileChangesAt(Len(delivered)))
       => /\ NewlyWritten # <<>>
          /\ NewlyWritten[1] = weaveLineCommand(delivered[Len(delivered)].pos)
          /\ PendingOutput = <<>>]_vars


(***************************************************************************)
(* Properties of the output files of Tangle (SpecTangle)                   *)
(***************************************************************************)

\* The files that are open after the first k events of the log: created,
\* and not flushed and closed since.
OpenAt(log, k) ==
  {log[i].file :
     i \in {j \in 1..k :
              /\ log[j].op = "create"
              /\ \A c \in (j + 1)..k :
                   ~(log[c].op = "close" /\ log[c].file = log[j].file)}}

\* C33: at every point of what Tangle does to the file system at most one
\* file is open, a file is created only when no file is open, text is
\* written to the open file and only an open file is flushed and closed;
\* and when Tangle has returned, with or without an error, no file is open.
C33_OneOpenFileAndNoneAtTheEnd ==
  /\ \A k \in 1..Len(out) :
       /\ Cardinality(OpenAt(out, k)) <= 1
       /\ out[k].op = "create" => OpenAt(out, k - 1) = {}
       /\ out[k].op # "create" => out[k].file \in OpenAt(out, k - 1)
  /\ (cpc = "done" /\ terr.kind # "overflow") => OpenAt(out, Len(out)) = {}

\* Tangle has returned after it wrote to two files, the first closed
\* before the second was created.
C33_Witness ==
  /\ cpc = "done"
  /\ terr.kind = "ok"
  /\ \E i, j \in 1..Len(out) :
       /\ i < j
       /\ out[i].op = "create"
       /\ out[j].op = "create"
       /\ out[i].file # out[j].file
       /\ \E k \in (i + 1)..(j - 1) : out[k].op = "line"
  /\ out[Len(out)].op = "close"


(***************************************************************************)
(* Properties of the errors of the expansion (SpecTangle)                  *)
(***************************************************************************)

\* Tangle has returned the error of a reference to a fragment that is not
\* defined, or to a top-level block.
ReferenceErrorReturned == cpc = "done" /\ terr.kind \in {"unknown", "toplevel"}

\* C34: the error that Tangle returns for a reference to an undefined
\* fragment or to a top-level block has the position of a line of the
\* input that holds a reference with the name of the error.
C34_ErrorIsAtTheLineOfTheReference ==
  ReferenceErrorReturned =>
    \E i \in 1..Len(delivered) :
      /\ delivered[i].pos = terr.pos
      /\ terr.name \in RefNames(delivered[i].line)


(***************************************************************************)
(* Properties of the default templates (SpecWeave)                         *)
(***************************************************************************)

\* The default CodeRef template with the name in the place of `$1`.
DefaultCodeRefOf(name) == <<"\\", "g", "l", "i", "t", "t", "e", "r", "C", "o", "d", "e", "R",
      "e", "f", "{">> \o name \o <<"}">>

\* The name of a reference as weaveCodeRefs sees it on a line of a code
\* block: the escape characters in it are EscapeSub already.
EscapedName(name) ==
  ReplaceAll(name, DefaultConfig.CodeEscape, DefaultConfig.EscapeSub)

\* Line i is woven with its references rewritten: a line of a text block
\* or of a code block, or the start of a text block.
RefsWovenAt(i) == InBlock(i, FALSE) /\ LineType(i) # "CodeStartLine"

\* C35: when Weave has ended without error on a run with the default
\* CodeRef template, the output holds, for every reference of a woven line,
\* the template with the referenced name in the place of `$1`.
C35_DefaultCodeRefHoldsTheName ==
  (werr = "ok" /\ "CodeRef" \notin DOMAIN Options.Config) =>
    \A i \in {j \in 1..Len(delivered) : RefsWovenAt(j)} :
      \A k \in 1..Len(FindAllRefs(delivered[i].line)) :
        LET name == FindAllRefs(delivered[i].line)[k]
        IN  \/ Written(DefaultCodeRefOf(name))
            \/ Written(DefaultCodeRefOf(EscapedName(name)))


(***************************************************************************)
(* Properties of the escape character in woven lines (SpecWeave)           *)
(***************************************************************************)

\* A line of a code block as the claim has it woven: outside references
\* every escape character becomes ESC EscapeSub ESC; a reference becomes
\* ESC, the CodeRef template for the name with its escape characters
\* replaced by EscapeSub, ESC.
RECURSIVE CodeLineWoven(_, _)
CodeLineWoven(line, seen) ==
  LET m   == codeRefRegex(line)
      esc == GetConfig("CodeEscape")
      sub == GetConfig("EscapeSub")
  IN  IF ~m.found THEN ReplaceAll(line, esc, esc \o sub \o esc)
      ELSE ReplaceAll(m.before, esc, esc \o sub \o esc)
             \o esc
             \o weaveCodeRef(ReplaceAll(m.name, esc, sub), GetConfig("CodeRef"), seen)
             \o esc
             \o CodeLineWoven(m.after, seen)

\* A line of a text block as the claim has it woven: a reference becomes
\* the CodeRef template, everything else stays.
RECURSIVE TextLineWoven(_, _)
TextLineWoven(line, seen) ==
  LET m == codeRefRegex(line)
  IN  IF ~m.found THEN line
      ELSE m.before \o weaveCodeRef(m.name, GetConfig("CodeRef"), seen)
             \o TextLineWoven(m.after, seen)

\* C36: for the line that Weave has received, weaveCodeRefs gives, for the line taken as a
\* line of a code block, each reference as ESC, CodeRef template, ESC, with
\* the escape characters inside the reference replaced by EscapeSub alone
\* and those outside replaced by ESC EscapeSub ESC; and for the line taken
\* as a line of a text block, each reference as the bare CodeRef template
\* with the escape characters left as they are.
C36_EscapesInWovenLines ==
  cpc = "wline" =>
    LET line == delivered[Len(delivered)].line
    IN  /\ weaveCodeRefs(line, "InCode", -1, seenBlocks).line
             = CodeLineWoven(line, seenBlocks)
        /\ weaveCodeRefs(line, "InText", -1, seenBlocks).line
             = TextLineWoven(line, seenBlocks)

\* Weave has ended without error and has written a line of a code block
\* with an escape character outside and inside a reference, and the start
\* of a text block with the same.
C36_Witness ==
  /\ werr = "ok"
  /\ "CodeRef" \in DOMAIN Options.Config
  /\ \E k \in 1..Len(wout) :
       wout[k] = <<"x", "@", "{", "\\", "g", "l", "i", "t", "t", "e", "r", "H", "a",
      "s", "h", "}", "@", "@", "\\", "g", "l", "i", "t", "t", "e",
      "r", "C", "o", "d", "e", "R", "e", "f", "{", "?", "?", "}",
      "{", "a", "{", "\\", "g", "l", "i", "t", "t", "e", "r", "H",
      "a", "s", "h", "}", "}", "@", "y">>
  /\ \E k \in 1..Len(wout) :
       wout[k] = <<" ", "p", "@", "\\", "g", "l", "i", "t", "t", "e", "r", "C", "o",
      "d", "e", "R", "e", "f", "{", "1", "}", "{", "a", "@", "}">>


(***************************************************************************)
(* Properties of the producer goroutine at the return of the reader        *)
(* (SpecTangle)                                                            *)
(***************************************************************************)

\* tangleReadBlocks has returned, with the blocks or with an error.
ReadBlocksReturned == cpc \in {"sort", "write", "done"} /\ terr.kind # "panic"

\* C37: when tangleReadBlocks has returned, normally or with an error,
\* the producer goroutine is not waiting to send a line on the channel,
\* which nobody receives from any more.
C37_NoProducerLeftSending == ReadBlocksReturned => ppc # "send"


(***************************************************************************)
(* Properties of the end of the expansion (SpecTangle)                     *)
(***************************************************************************)

\* No fragment that the stored block t reaches through references reaches
\* itself.
AcyclicFrom(t) ==
  \A n \in ({t} \cup Reaches(t)) \cap DOMAIN blocks : n \notin Reaches(n)

\* C38: the expansion of a top-level block from which no fragment that
\* refers to itself, directly or through others, is reached comes to an
\* end, with the lines to write or with the error of a reference: the
\* recursion of expandLine does not go on without end.
C38_AcyclicExpansionEnds ==
  cpc = "write" =>
    \A k \in 1..Len(topBlocks) :
      AcyclicFrom(topBlocks[k]) =>
        expandAndWriteBlock(blocks[topBlocks[k]], blocks,
                            splitTopLevelName(topBlocks[k]).filename).err.err
          \in {"", "unknown", "toplevel"}

\* Tangle has written a top-level block whose reference leads through a
\* fragment to a fragment of two lines, and none of them reaches itself.
C38_Witness ==
  /\ cpc = "done"
  /\ terr.kind = "ok"
  /\ \E t \in TopLevelNames(blocks) :
       /\ AcyclicFrom(t)
       /\ \E n \in StoreRefs(t) \cap DOMAIN blocks :
            \E m \in StoreRefs(n) \cap DOMAIN blocks :
              /\ m # n
              /\ Len(blocks[m]) >= 2
  /\ Len(out) >= 4


(***************************************************************************)
(* Properties of the creation of the output files (SpecTangle)             *)
(***************************************************************************)

\* The events of the log that create a file.
Creations(log) == {k \in 1..Len(log) : log[k].op = "create"}

\* All the text that the log writes to the file f, whatever os.Create did.
RECURSIVE AllWritten(_, _)
AllWritten(log, f) ==
  IF log = <<>> THEN <<>>
  ELSE LET e    == log[Len(log)]
           rest == AllWritten(Take(log, Len(log) - 1), f)
       IN  IF e.file # f THEN rest
           ELSE CASE e.op = "str"    -> rest \o e.text
                  [] e.op = "line"   -> rest \o e.text \o <<"\n">>
                  [] OTHER           -> rest

\* C39: in one run of Tangle no file is created twice, the top-level blocks
\* of one file stand next to each other in the order of writing, and every
\* file holds all the text that the run has written to it.
C39_EachFileIsCreatedOnce ==
  cpc \in {"write", "done"} =>
    /\ \A i, j \in Creations(out) : i # j => out[i].file # out[j].file
    /\ (\A k \in 1..Len(topBlocks) : ~splitTopLevelName(topBlocks[k]).err) =>
         \A i, j, k \in 1..Len(topBlocks) :
           (i < j /\ j < k /\ TopFile(i) = TopFile(k)) => TopFile(j) = TopFile(i)
    /\ \A f \in FilesCreated(out) : FileContent(out, f) = AllWritten(out, f)

\* The input defines a block of the default file, then a block of the file
\* o, then another block of the default file; Tangle has written all three,
\* the two blocks of the default file one after the other.
C39_Witness ==
  /\ cpc = "done"
  /\ terr.kind = "ok"
  /\ filenames = <<FileA>>
  /\ files[FileA].lines = <<Def(<<"*">>),
                            Def(<<"*", " ", "\"", "o", "\"", " ", "1", "0">>),
                            Def(<<"*", " ", "2">>), <<"x">>>>
  /\ Cardinality(Creations(out)) = 2
  /\ \E k \in 1..Len(out) : out[k].op = "str" /\ out[k].text = <<"\n">>


(***************************************************************************)
(* executor: the stack of variable frames (stack.go)                       *)
(***************************************************************************)

\* The deepest stack of the runs, and the names and values of variables.
MaxFrames == 3

VarNames == {<<"v">>, <<"w">>}

VarValues == {<<"1">>, <<"2">>}

\* make(map[string]string)
EmptyFrame == [n \in {} |-> <<>>]

\* pushStackFrame: append(stack, make(map[string]string))
pushStackFrame(s) == Append(s, EmptyFrame)

\* newVarStack: the nil Stack with one frame pushed.
newVarStack == pushStackFrame(<<>>)

\* popStackFrame: [stack, err]
popStackFrame(s) ==
  IF Len(s) = 0
  THEN [stack |-> s, err |-> "unexpected end of scope"]
  ELSE [stack |-> SubSeq(s, 1, Len(s) - 1), err |-> ""]

\* defineVariable: the stack with stack[len(stack)-1][name] = value, and the
\* error.
defineVariable(s, name, value) ==
  IF Len(s) = 0
  THEN [stack |-> s, err |-> "variable defined outside of any scope"]
  ELSE [stack |-> [s EXCEPT ![Len(s)] = (name :> value) @@ s[Len(s)]],
        err   |-> ""]

\* The loop of varValue from the Go index i down: the frames of the Go
\* indices i, i-1, .., 1 are looked at (frame i is the element i + 1 here),
\* the loop ends when i > 0 fails.
RECURSIVE varValueFrom(_, _, _)
varValueFrom(s, name, i) ==
  IF ~(i > 0) THEN [val |-> <<>>, err |-> "unknown variable"]
  ELSE IF name \in DOMAIN s[i + 1] THEN [val |-> s[i + 1][name], err |-> ""]
  ELSE varValueFrom(s, name, i - 1)

\* varValue: [val, err]
varValue(s, name) ==
  IF Len(s) = 0 THEN [val |-> <<>>, err |-> "unknown variable"]
  ELSE varValueFrom(s, name, Len(s) - 1)

\* stack = pushStackFrame(stack)
PushStackFrame ==
  /\ Len(varStack) < MaxFrames
  /\ varStack' = pushStackFrame(varStack)
  /\ varErr' = ""
  /\ UNCHANGED <<Options, files, scannerVars, consumerVars, varResult>>

\* stack, err = popStackFrame(stack)
PopStackFrame ==
  /\ varStack' = popStackFrame(varStack).stack
  /\ varErr' = popStackFrame(varStack).err
  /\ UNCHANGED <<Options, files, scannerVars, consumerVars, varResult>>

\* err = defineVariable(stack, name, value)
DefineVariable(name, value) ==
  /\ varStack' = defineVariable(varStack, name, value).stack
  /\ varErr' = defineVariable(varStack, name, value).err
  /\ UNCHANGED <<Options, files, scannerVars, consumerVars, varResult>>

\* val, err = varValue(stack, name)
VarValue(name) ==
  /\ varResult' = [name |-> name,
                   val  |-> varValue(varStack, name).val,
                   err  |-> varValue(varStack, name).err]
  /\ UNCHANGED <<Options, files, scannerVars, consumerVars, varStack, varErr>>

\* A caller that starts from newVarStack(), as replaceVariables and weave do.
InitStack ==
  /\ varStack = newVarStack
  /\ varErr = ""
  /\ varResult = NoResult
  /\ Options = OptionsOf("", FALSE, NoConfig)
  /\ files = (FileA :> [lines |-> <<>>, readErr |-> FALSE])
  /\ ScannerInit(<<>>, FALSE)
  /\ cpc = "done"
  /\ delivered = <<>>
  /\ cerr = "nil"
  /\ TangleStart
  /\ WeaveIdle

NextStack ==
  \/ PushStackFrame
  \/ PopStackFrame
  \/ \E name \in VarNames, value \in VarValues : DefineVariable(name, value)
  \/ \E name \in VarNames : VarValue(name)

SpecStack == InitStack /\ [][NextStack]_vars

(***************************************************************************)
(* Properties of the variable stack (SpecStack)                            *)
(***************************************************************************)

\* The frames of the stack s that define the name, counted from the bottom.
FramesDefining(s, name) == {i \in 1..Len(s) : name \in DOMAIN s[i]}

\* What the topmost frame that defines the name holds for it.
TopmostDefinition(s, name) == s[SetMax(FramesDefining(s, name))][name]

\* C40: varValue returns the value that defineVariable gave to the name
\* last in the topmost frame that defines it, and an error only when no
\* frame of the stack defines the name; a variable that has just been
\* defined, on a fresh stack or in an inner frame, is found with the value
\* given.
C40_VarValueIsTheTopmostDefinition ==
  [][/\ \A name \in VarNames :
          VarValue(name) =>
            IF FramesDefining(varStack, name) = {}
            THEN varResult'.err # ""
            ELSE /\ varResult'.err = ""
                 /\ varResult'.val = TopmostDefinition(varStack, name)
     /\ \A name \in VarNames, value \in VarValues :
          (DefineVariable(name, value) /\ varErr' = "") =>
            varValue(varStack', name) = [val |-> value, err |-> ""]]_vars

====
